---- MODULE Spec2Model ----
(***************************************************************************)
(* Memories Retrieval System: the deduplication registry                   *)
(* (app/services/dedup.py, app/utils/hashing.py) and the dual FAISS vector *)
(* store with its id mapping and disk persistence                          *)
(* (app/services/faiss_store.py).                                          *)
(*                                                                         *)
(* Specifications:                                                         *)
(*   SpecDedup      the registry, one caller at a time                     *)
(*   SpecDedupConc  check_and_register called from several threads         *)
(*   Spec           the vector store, one caller at a time, with its disk  *)
(*   SpecStoreConc  add_text_vector / add_image_vector from several threads*)
(***************************************************************************)
EXTENDS Integers, Sequences, FiniteSets, TLC

(***************************************************************************)
(* Bounds of the model.                                                    *)
(***************************************************************************)
\* number of distinct non-empty image contents presented to the system
NumImages == 3
\* length of the rendered digest (64 hex characters in the program)
DigestLen == 2
\* number of threads calling into a service at the same time
NumThreads == 2
\* largest number of vectors an index holds in the model
MaxVectors == 2
\* number of calls made on the store in one run of the model
MaxCalls == 5
\* embedding dimension of the store in the model (768 in the program)
ModelDimension == 2

VARIABLES
    \* DeduplicationService
    known_ids,     \* self._known_ids
    last_dedup,    \* the last registry call and what it returned
    prev_dedup,    \* the registry call before the last one
    car_pc,        \* per thread: position inside check_and_register
    car_local,     \* per thread: its image_bytes and image_id
    car_ret,       \* per thread: the returned (image_id, is_duplicate)
    \* FAISSStore
    faiss_store,   \* the fields of the store instance of this process
    disk,          \* the three files under config.FAISS_DIR
    last_store,    \* the last store call and what it returned
    saved_state,   \* the store as the last successful save_indices saw it
    last_search,   \* the last hybrid_search call and what it returned
    \* metadata store, object storage and the ingestion pipeline
    images,        \* the rows of the SQLite table images, by image_id
    master_index,  \* the file at config.MASTER_INDEX_PATH
    objects,       \* the image_ids that have a file in the mock storage
    dedup_loaded,  \* whether this process has built its DeduplicationService
    jobs,          \* _jobs of api/ingest.py, by job number
    run,           \* the locals of the running run_ingestion_pipeline
    n_jobs,        \* jobs submitted so far
    n_restarts,    \* process restarts so far
    n_faults,      \* failures of the database, the network and the disk so far
    first_run,     \* the first pipeline run as it left its processing loop
    last_index,    \* the last call on the table images, the row before and after
    stamps,        \* the columns created_at and updated_at, and the clock
    embedding_jobs, \* _embedding_jobs of api/embeddings.py, by job key
    embed,         \* the locals of the running captioning or embedding pipeline
    add_pc,        \* per thread: position inside add_*_vector
    add_local,     \* per thread: kind, vector, image_id, vector_id
    n_calls,       \* store calls made so far in this run of the model
    add_ret        \* per thread: the returned vector id

dedupVars == <<known_ids, last_dedup, prev_dedup>>
dedupThreadVars == <<car_pc, car_local, car_ret>>
storeVars == <<faiss_store, disk, last_store, saved_state, n_calls>>
storeThreadVars == <<add_pc, add_local, add_ret>>
indexVars == <<images, master_index, objects>>
ingestVars == <<dedup_loaded, jobs, run, n_jobs, n_restarts, n_faults,
               first_run>>
embedVars == <<embedding_jobs, embed>>
appVars == <<last_search, last_index, stamps, indexVars, ingestVars,
            embedVars>>
vars == <<dedupVars, dedupThreadVars, storeVars, storeThreadVars,
          appVars>>

Threads == 1..NumThreads

(***************************************************************************)
(* app/utils/hashing.py                                                    *)
(***************************************************************************)
\* image contents: the empty byte string and NumImages one-byte contents
ImageBytes == {<<>>} \cup {<<i>> : i \in 1..NumImages}

HexDigits == 0..15

RECURSIVE Pow16(_)
Pow16(n) == IF n = 0 THEN 1 ELSE 16 * Pow16(n - 1)

\* the digest as a number: a positional fold over the bytes, one-to-one on
\* the contents of the model (SHA-256 is taken to be collision free)
RECURSIVE sha256(_)
sha256(image_bytes) ==
    IF image_bytes = <<>> THEN 13
    ELSE sha256(SubSeq(image_bytes, 1, Len(image_bytes) - 1)) * 17
         + image_bytes[Len(image_bytes)] + 1

\* hexdigest(): DigestLen lowercase hex digits, most significant first
hexdigest(h) ==
    [k \in 1..DigestLen |-> (h \div Pow16(DigestLen - k)) % 16]

\* compute_image_id without its test for empty input
compute_image_id_unchecked(image_bytes) ==
    [raised |-> FALSE, value |-> hexdigest(sha256(image_bytes))]

\* compute_image_id: raises ValueError on empty input, else the hex digest
compute_image_id(image_bytes) ==
    IF image_bytes = <<>> THEN [raised |-> TRUE, value |-> <<>>]
    ELSE [raised |-> FALSE, value |-> hexdigest(sha256(image_bytes))]

is_valid_image_id(image_id) ==
    /\ Len(image_id) = DigestLen
    /\ \A k \in 1..Len(image_id) : image_id[k] \in HexDigits

\* the identities of the model's contents
ImageIds == {compute_image_id(b).value : b \in ImageBytes \ {<<>>}}

(***************************************************************************)
(* app/services/dedup.py: DeduplicationService                             *)
(***************************************************************************)
NoCall == [op |-> "none", image_bytes |-> <<>>, image_id |-> <<>>,
           is_duplicate |-> FALSE, raised |-> FALSE, known_before |-> {}]

\* the registries _load_existing_ids can build from the master index
load_existing_ids == SUBSET ImageIds

\* no master index on disk: the registry starts empty
DedupInit ==
    /\ known_ids = {}
    /\ last_dedup = NoCall
    /\ prev_dedup = NoCall

get_image_id(image_bytes) == compute_image_id(image_bytes)

is_duplicate_always_new(image_id) == FALSE

is_duplicate(image_id) == image_id \in known_ids

get_known_count == Cardinality(known_ids)

\* one whole call of check_and_register, no other caller in between
check_and_register(image_bytes) ==
    LET hashed == get_image_id(image_bytes)
        image_id == hashed.value IN
    IF hashed.raised
    THEN /\ UNCHANGED known_ids
         /\ last_dedup' = [op |-> "check_and_register",
                           image_bytes |-> image_bytes, image_id |-> <<>>,
                           is_duplicate |-> FALSE, raised |-> TRUE,
                           known_before |-> known_ids]
    ELSE IF is_duplicate(image_id)
    THEN /\ UNCHANGED known_ids
         /\ last_dedup' = [op |-> "check_and_register",
                           image_bytes |-> image_bytes, image_id |-> image_id,
                           is_duplicate |-> TRUE, raised |-> FALSE,
                           known_before |-> known_ids]
    ELSE /\ known_ids' = known_ids \cup {image_id}
         /\ last_dedup' = [op |-> "check_and_register",
                           image_bytes |-> image_bytes, image_id |-> image_id,
                           is_duplicate |-> FALSE, raised |-> FALSE,
                           known_before |-> known_ids]

register_id(image_id) ==
    IF ~is_valid_image_id(image_id)
    THEN /\ UNCHANGED known_ids
         /\ last_dedup' = [op |-> "register_id", image_bytes |-> <<>>,
                           image_id |-> image_id, is_duplicate |-> FALSE,
                           raised |-> TRUE, known_before |-> known_ids]
    ELSE /\ known_ids' = known_ids \cup {image_id}
         /\ last_dedup' = [op |-> "register_id", image_bytes |-> <<>>,
                           image_id |-> image_id, is_duplicate |-> FALSE,
                           raised |-> FALSE, known_before |-> known_ids]

clear ==
    /\ known_ids' = {}
    /\ last_dedup' = [op |-> "clear", image_bytes |-> <<>>, image_id |-> <<>>,
                      is_duplicate |-> FALSE, raised |-> FALSE,
                      known_before |-> known_ids]

\* check_and_register, thread t, up to the membership test (lines 100-104)
CarTest(t, image_bytes) ==
    /\ car_pc[t] = "idle"
    /\ LET hashed == get_image_id(image_bytes)
           image_id == hashed.value IN
       IF hashed.raised
       THEN /\ car_pc' = [car_pc EXCEPT ![t] = "done"]
            /\ car_local' = [car_local EXCEPT ![t] =
                   [image_bytes |-> image_bytes, image_id |-> <<>>,
                    known_before |-> known_ids]]
            /\ car_ret' = [car_ret EXCEPT ![t] =
                   [image_id |-> <<>>, is_duplicate |-> FALSE, raised |-> TRUE]]
       ELSE IF is_duplicate(image_id)
       THEN /\ car_pc' = [car_pc EXCEPT ![t] = "done"]
            /\ car_local' = [car_local EXCEPT ![t] =
                   [image_bytes |-> image_bytes, image_id |-> image_id,
                    known_before |-> known_ids]]
            /\ car_ret' = [car_ret EXCEPT ![t] =
                   [image_id |-> image_id, is_duplicate |-> TRUE,
                    raised |-> FALSE]]
       ELSE /\ car_pc' = [car_pc EXCEPT ![t] = "register"]
            /\ car_local' = [car_local EXCEPT ![t] =
                   [image_bytes |-> image_bytes, image_id |-> image_id,
                    known_before |-> known_ids]]
            /\ UNCHANGED car_ret
    /\ UNCHANGED known_ids

\* check_and_register, thread t, the insert and the return (lines 107-108)
CarRegister(t) ==
    /\ car_pc[t] = "register"
    /\ known_ids' = known_ids \cup {car_local[t].image_id}
    /\ car_ret' = [car_ret EXCEPT ![t] =
           [image_id |-> car_local[t].image_id, is_duplicate |-> FALSE,
            raised |-> FALSE]]
    /\ car_pc' = [car_pc EXCEPT ![t] = "done"]
    /\ UNCHANGED car_local

(***************************************************************************)
(* app/services/faiss_store.py: FAISSStore                                 *)
(***************************************************************************)
\* the value add_*_vector returns when it fails (Python None)
None == -1

\* self._dimension, and the d of both IndexFlatIP
dimension == ModelDimension

\* the content behind an identity of the model
content_of(image_id) ==
    CHOOSE i \in 1..NumImages : compute_image_id(<<i>>).value = image_id

\* stand-ins for the embedder's output, fixed per item: the caption vector
\* spells the item's number in binary, the pixel vector spells it backwards
text_embedding(image_id) ==
    [k \in 1..dimension |->
        (content_of(image_id) \div (2 ^ (dimension - k))) % 2]

image_embedding(image_id) ==
    [k \in 1..dimension |-> (content_of(image_id) \div (2 ^ (k - 1))) % 2]

\* a vector that is one component longer than the store's dimension
TooLong == [k \in 1..(dimension + 1) |-> 1]

EmptyMap == [x \in {} |-> <<>>]

MapPut(m, k, v) == [x \in DOMAIN m \cup {k} |-> IF x = k THEN v ELSE m[x]]

\* an IndexFlatIP is the sequence of its vectors; the vector at position p
\* (1-based here) has the FAISS id p - 1.  Each entry also remembers the
\* vector id that add_*_vector returned for it.
ntotal(index) == Len(index)

\* FAISSStore.__init__
NewStore ==
    [is_loaded |-> FALSE,
     text_index |-> <<>>,
     image_index |-> <<>>,
     text_id_to_image_id |-> EmptyMap,
     image_id_to_image_id |-> EmptyMap,
     image_id_to_text_vector |-> EmptyMap,
     image_id_to_image_vector |-> EmptyMap]

\* the state create_indices leaves (it returns True)
create_indices(s) ==
    [s EXCEPT !.text_index = <<>>,
              !.image_index = <<>>,
              !.text_id_to_image_id = EmptyMap,
              !.image_id_to_image_id = EmptyMap,
              !.image_id_to_text_vector = EmptyMap,
              !.image_id_to_image_vector = EmptyMap,
              !.is_loaded = TRUE]

\* str(k) of a vector id: its decimal digits
RECURSIVE str_int(_)
str_int(k) == IF k < 10 THEN <<k>> ELSE Append(str_int(k \div 10), k % 10)

\* int(k) of a JSON key
RECURSIVE int_str(_)
int_str(key) ==
    IF Len(key) = 1 THEN key[1]
    ELSE 10 * int_str(SubSeq(key, 1, Len(key) - 1)) + key[Len(key)]

\* {str(k): v for k, v in m.items()}
json_keys_mangled(m) ==
    [key \in {str_int(k + 1) : k \in DOMAIN m} |->
        m[CHOOSE k \in DOMAIN m : str_int(k + 1) = key]]

json_keys(m) ==
    [key \in {str_int(k) : k \in DOMAIN m} |->
        m[CHOOSE k \in DOMAIN m : str_int(k) = key]]

\* {int(k): v for k, v in j.items()}
int_keys(j) ==
    [k \in {int_str(key) : key \in DOMAIN j} |->
        j[CHOOSE key \in DOMAIN j : int_str(key) = k]]

\* {v: k for k, v in m.items()}: for a repeated v the last item wins, the
\* items coming in the order the ids were inserted
reverse_mapping(m) ==
    [v \in {m[k] : k \in DOMAIN m} |->
        CHOOSE k \in DOMAIN m :
            /\ m[k] = v
            /\ \A k2 \in DOMAIN m : m[k2] = v => k2 <= k]

EmptyMappings == [text_to_image |-> EmptyMap, image_to_image |-> EmptyMap]

\* a file: absent, ok (readable, with its data) or torn (it exists and
\* reading it raises)
AbsentIndexFile == [state |-> "absent", data |-> <<>>]
TornIndexFile == [state |-> "torn", data |-> <<>>]
AbsentMappingFile == [state |-> "absent", data |-> EmptyMappings]
TornMappingFile == [state |-> "torn", data |-> EmptyMappings]

EmptyDisk == [text |-> AbsentIndexFile, image |-> AbsentIndexFile,
              mapping |-> AbsentMappingFile]

\* load_indices when text.index or image.index is not on disk (lines 149-151)
on_missing_indices_keeps_state(s) == s

on_missing_indices(s) == create_indices(s)

\* the state load_indices leaves
load_indices(s, d) ==
    IF d.text.state = "absent" \/ d.image.state = "absent"
    THEN on_missing_indices(s)
    ELSE IF d.text.state = "torn" \/ d.image.state = "torn"
    THEN create_indices(s)                  \* read_index raises
    ELSE IF d.mapping.state = "torn"
    THEN create_indices(s)                  \* json.load raises
    ELSE IF d.mapping.state = "ok"
    THEN LET text_map == int_keys(d.mapping.data.text_to_image)
             image_map == int_keys(d.mapping.data.image_to_image) IN
         [is_loaded |-> TRUE,
          text_index |-> d.text.data,
          image_index |-> d.image.data,
          text_id_to_image_id |-> text_map,
          image_id_to_image_id |-> image_map,
          image_id_to_text_vector |-> reverse_mapping(text_map),
          image_id_to_image_vector |-> reverse_mapping(image_map)]
    ELSE [s EXCEPT !.text_index = d.text.data,
                   !.image_index = d.image.data,
                   !.is_loaded = TRUE]

\* what load_indices returns: True (line 183), or what create_indices
\* returns (lines 151 and 188), which is True (line 126)
load_indices_returns(s, d) == TRUE

\* save_indices writes text.index, image.index and vector_mapping.json in
\* this order.  files_written of them are written before an exception ends
\* the call (3: none does); torn says whether the file being written when
\* the exception came is left unreadable or as it was.
SaveOutcomes ==
    {<<n, torn>> \in (0..3) \X BOOLEAN : n = 3 => ~torn}

file_after(n, files_written, torn, new, old, torn_file) ==
    IF files_written >= n THEN new
    ELSE IF files_written = n - 1 /\ torn THEN torn_file
    ELSE old

mappings_of(s) ==
    [text_to_image |-> json_keys(s.text_id_to_image_id),
     image_to_image |-> json_keys(s.image_id_to_image_id)]

save_indices(s, d, files_written, torn) ==
    IF ~s.is_loaded THEN [disk |-> d, ret |-> FALSE]
    ELSE [disk |->
            [text |-> file_after(1, files_written, torn,
                         [state |-> "ok", data |-> s.text_index],
                         d.text, TornIndexFile),
             image |-> file_after(2, files_written, torn,
                         [state |-> "ok", data |-> s.image_index],
                         d.image, TornIndexFile),
             mapping |-> file_after(3, files_written, torn,
                         [state |-> "ok", data |-> mappings_of(s)],
                         d.mapping, TornMappingFile)],
          ret |-> files_written = 3]

ensure_loaded(s, d) == IF ~s.is_loaded THEN load_indices(s, d) ELSE s

\* vector_id = self._text_index.ntotal, read before the vector is added
next_vector_id_after_add(index) == ntotal(index) + 1

next_vector_id(index) == ntotal(index)

\* index.add(vec) raises unless the vector has the index's dimension
add_raises(vector) == Len(vector) # dimension

already_exists_never(reverse, image_id) == FALSE

already_exists(reverse, image_id) == image_id \in DOMAIN reverse

\* add_text_vector: the store it leaves and the vector id it returns
add_text_vector(s0, d, vector, image_id) ==
    LET s == ensure_loaded(s0, d) IN
    IF already_exists(s.image_id_to_text_vector, image_id)
    THEN [store |-> s, ret |-> s.image_id_to_text_vector[image_id]]
    ELSE IF add_raises(vector)
    THEN [store |-> s, ret |-> None]
    ELSE LET vector_id == next_vector_id(s.text_index) IN
         [store |->
            [s EXCEPT
               !.text_index =
                   Append(@, [vector |-> vector, vector_id |-> vector_id]),
               !.text_id_to_image_id = MapPut(@, vector_id, image_id),
               !.image_id_to_text_vector = MapPut(@, image_id, vector_id)],
          ret |-> vector_id]

add_image_vector(s0, d, vector, image_id) ==
    LET s == ensure_loaded(s0, d) IN
    IF already_exists(s.image_id_to_image_vector, image_id)
    THEN [store |-> s, ret |-> s.image_id_to_image_vector[image_id]]
    ELSE IF add_raises(vector)
    THEN [store |-> s, ret |-> None]
    ELSE LET vector_id == next_vector_id(s.image_index) IN
         [store |->
            [s EXCEPT
               !.image_index =
                   Append(@, [vector |-> vector, vector_id |-> vector_id]),
               !.image_id_to_image_id = MapPut(@, vector_id, image_id),
               !.image_id_to_image_vector = MapPut(@, image_id, vector_id)],
          ret |-> vector_id]

get_text_vector_count(s) == IF ~s.is_loaded THEN 0 ELSE ntotal(s.text_index)

get_image_vector_count(s) == IF ~s.is_loaded THEN 0 ELSE ntotal(s.image_index)

\* inner product of a query with a stored vector
RECURSIVE dot(_, _, _)
dot(q, v, n) == IF n = 0 THEN 0 ELSE dot(q, v, n - 1) + q[n] * v[n]

\* the best of a non-empty set of results: highest score, lowest id on a tie
Best(results) ==
    CHOOSE r \in results : \A o \in results :
        \/ r.score > o.score
        \/ r.score = o.score /\ r.vector_id <= o.vector_id

RECURSIVE top_k(_, _)
top_k(results, k) ==
    IF k = 0 \/ results = {} THEN <<>>
    ELSE <<Best(results)>> \o top_k(results \ {Best(results)}, k - 1)

Min(a, b) == IF a <= b THEN a ELSE b

\* index.search(query, k) behind search_text / search_image, on a loaded
\* store: SearchResult(vector_id, score) by score descending
search(index, query_vector, k) ==
    IF ntotal(index) = 0 THEN <<>>
    ELSE IF Len(query_vector) # dimension THEN <<>>
    ELSE top_k({[vector_id |-> p - 1,
                 score |-> dot(query_vector, index[p].vector, dimension)] :
                    p \in 1..Len(index)},
               Min(k, ntotal(index)))

search_text(s, query_vector, k) == search(s.text_index, query_vector, k)

search_image(s, query_vector, k) == search(s.image_index, query_vector, k)

\* config.TEXT_SIMILARITY_WEIGHT and config.IMAGE_SIMILARITY_WEIGHT, in tenths
TEXT_SIMILARITY_WEIGHT == 7

IMAGE_SIMILARITY_WEIGHT == 3

\* the weight 1.0 in tenths: a fused score counts tenths of a score unit
WeightOne == TEXT_SIMILARITY_WEIGHT + IMAGE_SIMILARITY_WEIGHT

search_k_exact(k) == k

\* hybrid_search line 444
search_k(k) == k * 3

\* the dict `scores` of hybrid_search: its keys in insertion order, and the
\* {"text": ..., "image": ...} entry of each key
NoScores == [order |-> <<>>, of |-> EmptyMap]

\* one of the two loops of lines 454-467 over the results of one side
RECURSIVE add_scores(_, _, _, _)
add_scores(scores, results, forward, side) ==
    IF results = <<>> THEN scores
    ELSE LET r == Head(results) IN
         IF r.vector_id \notin DOMAIN forward
         THEN add_scores(scores, Tail(results), forward, side)
         ELSE LET image_id == forward[r.vector_id]
                  seen == image_id \in DOMAIN scores.of
                  old == IF seen THEN scores.of[image_id]
                         ELSE [text |-> 0, image |-> 0]
                  new == IF side = "text" THEN [old EXCEPT !.text = r.score]
                         ELSE [old EXCEPT !.image = r.score] IN
              add_scores(
                  [order |-> IF seen THEN scores.order
                             ELSE Append(scores.order, image_id),
                   of |-> MapPut(scores.of, image_id, new)],
                  Tail(results), forward, side)

\* lines 476-481, in tenths of a score unit
final_score(text_score, image_score, text_weight, image_weight) ==
    IF text_score > 0 /\ image_score > 0
    THEN text_weight * text_score + image_weight * image_score
    ELSE IF text_score > 0 THEN WeightOne * text_score
    ELSE WeightOne * image_score

\* combined.sort(key=score, reverse=True): stable, so equal scores keep the
\* order in which they were appended
RECURSIVE insert_desc(_, _)
insert_desc(sorted, x) ==
    IF sorted = <<>> THEN <<x>>
    ELSE IF Head(sorted).score >= x.score
    THEN <<Head(sorted)>> \o insert_desc(Tail(sorted), x)
    ELSE <<x>> \o sorted

RECURSIVE sort_desc(_)
sort_desc(combined) ==
    IF combined = <<>> THEN <<>>
    ELSE insert_desc(sort_desc(SubSeq(combined, 1, Len(combined) - 1)),
                     combined[Len(combined)])

\* hybrid_search lines 450-482, from the two result lists on
fuse(text_results, image_results, text_forward, image_forward, k, text_weight, image_weight) ==
    LET scores == add_scores(
                      add_scores(NoScores, text_results, text_forward, "text"),
                      image_results, image_forward, "image")
        combined == [i \in 1..Len(scores.order) |->
                        [image_id |-> scores.order[i],
                         score |-> final_score(
                                       scores.of[scores.order[i]].text,
                                       scores.of[scores.order[i]].image,
                                       text_weight, image_weight)]]
        sorted == sort_desc(combined) IN
    SubSeq(sorted, 1, Min(k, Len(sorted)))

\* hybrid_search on a loaded store: (image_id, combined score) pairs
hybrid_search(s, query_vector, k, text_weight, image_weight) ==
    fuse(search_text(s, query_vector, search_k(k)),
         search_image(s, query_vector, search_k(k)),
         s.text_id_to_image_id, s.image_id_to_image_id, k,
         text_weight, image_weight)

(***************************************************************************)
(* The vector store, one caller at a time.                                 *)
(***************************************************************************)
NoStoreCall == [op |-> "none", image_id |-> <<>>,
                ret |-> None, ok |-> TRUE, existed |-> FALSE,
                count_before |-> 0, bad_dimension |-> FALSE,
                unchanged |-> TRUE]

NothingSaved == [valid |-> FALSE, store |-> NewStore]

NoSearch == [query_vector |-> <<>>, k |-> 0, results |-> <<>>]

(***************************************************************************)
(* The metadata store (app/services/indexer.py), the job table and the     *)
(* locals of run_ingestion_pipeline (app/api/ingest.py).                   *)
(***************************************************************************)
MaxJobs == 2

MaxEntries == 3
NumContents == 2

MaxRestarts == 1

MaxFaults == 1

JobIds == 1..MaxJobs

\* the row save_image_metadata writes for a MasterIndexEntry built by the
\* ingestion pipeline: caption and both vector ids NULL
NewRow == [caption |-> None, text_vector_id |-> None, image_vector_id |-> None]

NoImages == [x \in {} |-> NewRow]

AbsentMasterIndex == [state |-> "absent", keys |-> {}]

\* a write of the master index that did not finish: open(..., "w") has
\* truncated the file and the JSON text is incomplete
TornMasterIndex == [state |-> "torn", keys |-> {}]

NoJob == [status |-> "NONE", progress |-> 0, errors |-> <<>>,
          total_images |-> 0, processed_images |-> 0, duplicates_skipped |-> 0]

NoContent == [kind |-> "none", contents |-> <<>>]

\* what outlives the process: the table, the stored files, the master index;
\* and the registry of the process
durable == [images |-> images, objects |-> objects,
            master_index |-> master_index, known_ids |-> known_ids]

NoDurable == [images |-> NoImages, objects |-> {},
              master_index |-> AbsentMasterIndex, known_ids |-> {}]

NoRun == [pc |-> "idle", job_id |-> 0, json_content |-> NoContent,
          entries |-> <<>>, successful |-> <<>>, failed |-> 0,
          processed |-> 0, duplicates |-> 0, uploaded |-> 0,
          errors |-> <<>>,
          fresh |-> FALSE, registered |-> <<>>, store_failed |-> FALSE,
          entered_downloading |-> FALSE, built |-> FALSE,
          outcomes |-> <<>>,
          at_start |-> NoDurable]

\* nothing is known of a first run
NoFirstRun == [job_id |-> 0, json_content |-> NoContent,
               images |-> NoImages, known |-> 0, clean |-> FALSE]

\* no row has been written, no reading of the clock has been taken; the
\* columns created_at and updated_at are followed in SpecIndexer
NoStamps == [clock |-> 0, of |-> [x \in {} |-> [created_at |-> 0,
                                                updated_at |-> 0]]]

\* no call on the table images has been made
NoIndexCall == [op |-> "none", image_id |-> None, existed |-> FALSE,
                before |-> NewRow, after |-> NewRow, n |-> 0]

IngestIdle ==
    /\ images = NoImages
    /\ master_index = AbsentMasterIndex
    /\ objects = {}
    /\ dedup_loaded = FALSE
    /\ jobs = [j \in JobIds |-> NoJob]
    /\ run = NoRun
    /\ n_jobs = 0
    /\ n_restarts = 0
    /\ n_faults = 0
    /\ first_run = NoFirstRun

MaxEmbedJobs == 2

EmbedKeys == (1..MaxEmbedJobs) \X {"main", "caption", "embed"}

\* a key _embedding_jobs does not hold
NoEmbedJob == [status |-> "NONE", progress |-> 0, error |-> "", errors |-> <<>>,
               captioned |-> 0, embedded |-> 0, total |-> 0]

\* no pipeline of api/embeddings.py is running; job counts the requests
NoEmbed == [pc |-> "idle", job |-> 0, mode |-> "none", key |-> "main",
            images |-> <<>>, idx |-> 0, captioned |-> 0, embedded |-> 0,
            errors |-> <<>>,
            selected |-> NoImages, store_before |-> NewStore,
            unloadable |-> FALSE, done |-> <<>>,
            caption_before |-> NoImages, caption_done |-> <<>>,
            captioner_loaded |-> FALSE, embedder_loaded |-> FALSE]

EmbedIdle ==
    /\ embedding_jobs = [key \in EmbedKeys |-> NoEmbedJob]
    /\ embed = NoEmbed

\* no query has been made, nothing has been ingested
AppIdle ==
    /\ last_search = NoSearch
    /\ last_index = NoIndexCall
    /\ stamps = NoStamps
    /\ IngestIdle
    /\ EmbedIdle

StoreInit ==
    /\ faiss_store = NewStore
    /\ disk = EmptyDisk
    /\ last_store = NoStoreCall
    /\ saved_state = NothingSaved
    /\ n_calls = 0

AddTextVector(vector, image_id) ==
    LET s == ensure_loaded(faiss_store, disk)
        r == add_text_vector(faiss_store, disk, vector, image_id) IN
    /\ n_calls < MaxCalls
    /\ n_calls' = n_calls + 1
    /\ Len(r.store.text_index) <= MaxVectors
    /\ faiss_store' = r.store
    /\ last_store' = [op |-> "add_text_vector", image_id |-> image_id,
                      ret |-> r.ret, ok |-> r.ret # None,
                      existed |-> image_id \in DOMAIN s.image_id_to_text_vector,
                      count_before |-> ntotal(s.text_index),
                      bad_dimension |-> Len(vector) # dimension,
                      unchanged |-> r.store = s]
    /\ saved_state' = NothingSaved
    /\ UNCHANGED disk

AddImageVector(vector, image_id) ==
    LET s == ensure_loaded(faiss_store, disk)
        r == add_image_vector(faiss_store, disk, vector, image_id) IN
    /\ n_calls < MaxCalls
    /\ n_calls' = n_calls + 1
    /\ Len(r.store.image_index) <= MaxVectors
    /\ faiss_store' = r.store
    /\ last_store' = [op |-> "add_image_vector", image_id |-> image_id,
                      ret |-> r.ret, ok |-> r.ret # None,
                      existed |-> image_id \in DOMAIN s.image_id_to_image_vector,
                      count_before |-> ntotal(s.image_index),
                      bad_dimension |-> Len(vector) # dimension,
                      unchanged |-> r.store = s]
    /\ saved_state' = NothingSaved
    /\ UNCHANGED disk

CreateIndices ==
    /\ n_calls < MaxCalls
    /\ n_calls' = n_calls + 1
    /\ faiss_store' = create_indices(faiss_store)
    /\ last_store' = [NoStoreCall EXCEPT !.op = "create_indices"]
    /\ saved_state' = NothingSaved
    /\ UNCHANGED disk

LoadIndices ==
    /\ n_calls < MaxCalls
    /\ n_calls' = n_calls + 1
    /\ faiss_store' = load_indices(faiss_store, disk)
    /\ last_store' = [NoStoreCall EXCEPT
                         !.op = "load_indices",
                         !.ok = load_indices_returns(faiss_store, disk)]
    /\ UNCHANGED <<disk, saved_state>>

SaveIndices(files_written, torn) ==
    LET r == save_indices(faiss_store, disk, files_written, torn) IN
    /\ n_calls < MaxCalls
    /\ n_calls' = n_calls + 1
    /\ disk' = r.disk
    /\ last_store' = [NoStoreCall EXCEPT !.op = "save_indices", !.ok = r.ret]
    /\ saved_state' = IF r.ret THEN [valid |-> TRUE, store |-> faiss_store]
                      ELSE NothingSaved
    /\ UNCHANGED faiss_store

\* the process ends and a new one starts: get_faiss_store() builds a fresh
\* FAISSStore, the files stay
Restart ==
    /\ n_calls < MaxCalls
    /\ n_calls' = n_calls + 1
    /\ faiss_store' = NewStore
    /\ last_store' = [NoStoreCall EXCEPT !.op = "restart"]
    /\ UNCHANGED <<disk, saved_state>>

DedupThreadIdle ==
    /\ car_pc = [t \in Threads |-> "idle"]
    /\ car_local = [t \in Threads |->
                      [image_bytes |-> <<>>, image_id |-> <<>>,
                       known_before |-> {}]]
    /\ car_ret = [t \in Threads |->
                    [image_id |-> <<>>, is_duplicate |-> FALSE, raised |-> FALSE]]

StoreThreadIdle ==
    /\ add_pc = [t \in Threads |-> "idle"]
    /\ add_local = [t \in Threads |->
                      [kind |-> "text", vector |-> <<>>, image_id |-> <<>>,
                       vector_id |-> None]]
    /\ add_ret = [t \in Threads |-> None]

Init ==
    /\ AppIdle
    /\ StoreInit
    /\ DedupInit
    /\ DedupThreadIdle
    /\ StoreThreadIdle

Next ==
    \/ \E image_id \in ImageIds :
       \E vector \in {text_embedding(image_id), TooLong} :
           /\ AddTextVector(vector, image_id)
           /\ UNCHANGED <<appVars, dedupVars, dedupThreadVars, storeThreadVars>>
    \/ \E image_id \in ImageIds :
       \E vector \in {image_embedding(image_id), TooLong} :
           /\ AddImageVector(vector, image_id)
           /\ UNCHANGED <<appVars, dedupVars, dedupThreadVars, storeThreadVars>>
    \/ /\ CreateIndices
       /\ UNCHANGED <<appVars, dedupVars, dedupThreadVars, storeThreadVars>>
    \/ /\ LoadIndices
       /\ UNCHANGED <<appVars, dedupVars, dedupThreadVars, storeThreadVars>>
    \/ \E o \in SaveOutcomes :
           /\ SaveIndices(o[1], o[2])
           /\ UNCHANGED <<appVars, dedupVars, dedupThreadVars, storeThreadVars>>
    \/ /\ Restart
       /\ UNCHANGED <<appVars, dedupVars, dedupThreadVars, storeThreadVars>>

Spec == Init /\ [][Next]_vars

(***************************************************************************)
(* Properties of the vector store (Spec).                                  *)
(***************************************************************************)
IsAdd(op) == op \in {"add_text_vector", "add_image_vector"}

index_of(s, op) ==
    IF op = "add_text_vector" THEN s.text_index ELSE s.image_index

forward_of(s, op) ==
    IF op = "add_text_vector" THEN s.text_id_to_image_id
    ELSE s.image_id_to_image_id

reverse_of(s, op) ==
    IF op = "add_text_vector" THEN s.image_id_to_text_vector
    ELSE s.image_id_to_image_vector

DenseIds(index) == \A p \in 1..Len(index) : index[p].vector_id = p - 1

\* C3: the vector ids handed out for the vectors of an index are exactly
\* 0..M-1 in insertion order: the vector at insertion rank p (0-based) got the
\* id p from add_*_vector, and an add of a new identity returns the number of
\* vectors that were in the index before it and adds exactly one vector.
C3_VectorIdsDense ==
    /\ DenseIds(faiss_store.text_index)
    /\ DenseIds(faiss_store.image_index)
    /\ (IsAdd(last_store.op) /\ last_store.ok /\ ~last_store.existed) =>
          /\ last_store.ret = last_store.count_before
          /\ ntotal(index_of(faiss_store, last_store.op))
                = last_store.count_before + 1

\* C3 witness: a second vector was added to an index and got the id 1
C3_Witness ==
    /\ last_store.op = "add_text_vector"
    /\ ~last_store.existed
    /\ last_store.ret = 1
    /\ ntotal(faiss_store.text_index) = 2

\* C4: for each kind the number of vectors in the index equals the number of
\* entries of that kind's vector-id-to-identity mapping.
C4_CountsEqual ==
    /\ ntotal(faiss_store.text_index)
          = Cardinality(DOMAIN faiss_store.text_id_to_image_id)
    /\ ntotal(faiss_store.image_index)
          = Cardinality(DOMAIN faiss_store.image_id_to_image_id)

\* C5: two calls in a row of add_*_vector of one kind with the same identity,
\* the first of which returned an id, return the same id; the second changes
\* nothing in the store; and when the identity had no vector of that kind
\* before the first call, the index holds exactly one vector more after both
\* calls than the first call found in it.
C5_AddTwiceSameId ==
    [][(/\ n_calls' = n_calls + 1
        /\ IsAdd(last_store'.op)
        /\ last_store.op = last_store'.op
        /\ last_store.image_id = last_store'.image_id
        /\ last_store.ok)
       => /\ last_store'.ret = last_store.ret
          /\ faiss_store' = faiss_store
          /\ ~last_store.existed =>
                ntotal(index_of(faiss_store', last_store'.op))
                    = last_store.count_before + 1]_vars

\* C5 witness: the first two calls of a run added the same identity to the
\* text index, which holds one vector
C5_Witness ==
    /\ n_calls = 2
    /\ disk = EmptyDisk
    /\ last_store.op = "add_text_vector"
    /\ last_store.existed
    /\ last_store.ret = 0
    /\ ntotal(faiss_store.text_index) = 1

Inverse(forward, reverse) ==
    /\ \A k \in DOMAIN forward :
          forward[k] \in DOMAIN reverse /\ reverse[forward[k]] = k
    /\ \A v \in DOMAIN reverse :
          reverse[v] \in DOMAIN forward /\ forward[reverse[v]] = v

\* C6: for each kind the vector-id-to-identity mapping and the
\* identity-to-vector-id mapping are inverse bijections.
C6_MappingsInverse ==
    /\ Inverse(faiss_store.text_id_to_image_id,
               faiss_store.image_id_to_text_vector)
    /\ Inverse(faiss_store.image_id_to_image_id,
               faiss_store.image_id_to_image_vector)

\* probe vectors of the store's dimension
Probes == [1..dimension -> {0, 1}]

SameAsSaved(s, t) ==
    /\ s.text_id_to_image_id = t.text_id_to_image_id
    /\ s.image_id_to_image_id = t.image_id_to_image_id
    /\ get_text_vector_count(s) = get_text_vector_count(t)
    /\ get_image_vector_count(s) = get_image_vector_count(t)
    /\ \A q \in Probes : \A k \in 1..(MaxVectors + 1) :
          /\ search_text(s, q, k) = search_text(t, q, k)
          /\ search_image(s, q, k) = search_image(t, q, k)

\* C8: a save_indices that succeeded followed by load_indices, in the same
\* store or in a fresh one, reproduces both vector-id-to-identity mappings,
\* both vector counts and the search results of every probe vector.
C8_SaveLoadRoundTrip ==
    (saved_state.valid /\ last_store.op = "load_indices")
        => SameAsSaved(faiss_store, saved_state.store)

\* C8 witness: a store with a vector of each kind was saved and loaded
C8_Witness ==
    /\ saved_state.valid
    /\ last_store.op = "load_indices"
    /\ ntotal(faiss_store.text_index) >= 1
    /\ ntotal(faiss_store.image_index) >= 1

MappingCount(file, kind) ==
    IF file.state = "ok" THEN Cardinality(DOMAIN file.data[kind]) ELSE 0

\* both index files exist, and one of the three files cannot be read or an
\* index file and the mapping file disagree on the number of entries
PersistedStateBad(d) ==
    /\ d.text.state # "absent"
    /\ d.image.state # "absent"
    /\ \/ d.text.state = "torn"
       \/ d.image.state = "torn"
       \/ d.mapping.state = "torn"
       \/ Len(d.text.data) # MappingCount(d.mapping, "text_to_image")
       \/ Len(d.image.data) # MappingCount(d.mapping, "image_to_image")

\* C9: a load_indices that finds the persisted state unreadable, or its index
\* and mapping counts in disagreement, reports failure.
C9_LoadReportsInconsistency ==
    (last_store.op = "load_indices" /\ PersistedStateBad(disk))
        => ~last_store.ok

C11_BadDimensionRejected ==
    (IsAdd(last_store.op) /\ last_store.bad_dimension) =>
        /\ last_store.ret = None
        /\ last_store.unchanged
        /\ ntotal(index_of(faiss_store, last_store.op))
              = last_store.count_before

(***************************************************************************)
(* The registry, one caller at a time (SpecDedup).                         *)
(***************************************************************************)
CheckAndRegister(image_bytes) ==
    /\ check_and_register(image_bytes)
    /\ prev_dedup' = last_dedup

\* an identifier that is no digest: one digit too long
MalformedId == [k \in 1..(DigestLen + 1) |-> 0]

RegisterId(image_id) ==
    /\ register_id(image_id)
    /\ prev_dedup' = last_dedup

Clear ==
    /\ clear
    /\ prev_dedup' = last_dedup

StoreIdle ==
    /\ faiss_store = NewStore
    /\ disk = EmptyDisk
    /\ last_store = NoStoreCall
    /\ saved_state = NothingSaved
    /\ n_calls = 0

InitDedup ==
    /\ AppIdle
    /\ known_ids \in load_existing_ids
    /\ last_dedup = NoCall
    /\ prev_dedup = NoCall
    /\ DedupThreadIdle
    /\ StoreIdle
    /\ StoreThreadIdle

NextDedup ==
    \/ \E image_bytes \in ImageBytes :
           /\ CheckAndRegister(image_bytes)
           /\ UNCHANGED <<appVars, dedupThreadVars, storeVars, storeThreadVars>>
    \/ \E image_id \in ImageIds \cup {MalformedId} :
           /\ RegisterId(image_id)
           /\ UNCHANGED <<appVars, dedupThreadVars, storeVars, storeThreadVars>>
    \/ /\ Clear
       /\ UNCHANGED <<appVars, dedupThreadVars, storeVars, storeThreadVars>>

SpecDedup == InitDedup /\ [][NextDedup]_vars

\* C2: check_and_register on content whose identity is not in the registry
\* returns (id, False) and inserts the identity; on a known identity it
\* returns (id, True) and leaves the registry as it was; so two calls in a
\* row with the same non-empty content, the identity unknown before the
\* first, return (id, False) then (id, True) with the same id, and
\* get_known_count() is one higher after both than before.
C2_DedupIdempotent ==
    /\ (last_dedup.op = "check_and_register" /\ ~last_dedup.raised) =>
          IF last_dedup.image_id \in last_dedup.known_before
          THEN /\ last_dedup.is_duplicate
               /\ known_ids = last_dedup.known_before
          ELSE /\ ~last_dedup.is_duplicate
               /\ known_ids = last_dedup.known_before \cup {last_dedup.image_id}
    /\ (/\ prev_dedup.op = "check_and_register"
        /\ ~prev_dedup.raised
        /\ prev_dedup.image_id \notin prev_dedup.known_before
        /\ last_dedup.op = "check_and_register"
        /\ last_dedup.image_bytes = prev_dedup.image_bytes) =>
          /\ ~prev_dedup.is_duplicate
          /\ last_dedup.is_duplicate
          /\ last_dedup.image_id = prev_dedup.image_id
          /\ get_known_count = Cardinality(prev_dedup.known_before) + 1

\* C2 witness: the same content was presented twice in a row, the first time
\* as new content, with another identity already registered
C2_Witness ==
    /\ prev_dedup.op = "check_and_register"
    /\ ~prev_dedup.is_duplicate
    /\ ~prev_dedup.raised
    /\ prev_dedup.known_before # {}
    /\ last_dedup.op = "check_and_register"
    /\ last_dedup.image_bytes = prev_dedup.image_bytes
    /\ last_dedup.is_duplicate

\* C21: compute_image_id and check_and_register raise on empty input, and
\* the call that raised leaves the registry and its count as they were; on
\* non-empty input neither raises, and two calls with the same bytes get the
\* same identity.
C21_EmptyInputRejected ==
    /\ get_image_id(<<>>).raised
    /\ \A b \in ImageBytes \ {<<>>} : ~get_image_id(b).raised
    /\ last_dedup.op = "check_and_register" =>
          /\ last_dedup.raised <=> last_dedup.image_bytes = <<>>
          /\ last_dedup.raised =>
                /\ known_ids = last_dedup.known_before
                /\ get_known_count = Cardinality(last_dedup.known_before)
          /\ ~last_dedup.raised =>
                last_dedup.image_id = get_image_id(last_dedup.image_bytes).value
    /\ (/\ prev_dedup.op = "check_and_register"
        /\ last_dedup.op = "check_and_register"
        /\ last_dedup.image_bytes = prev_dedup.image_bytes
        /\ ~prev_dedup.raised) =>
          last_dedup.image_id = prev_dedup.image_id

\* check_and_register was given empty bytes while the registry held an
\* identity
C21_Witness ==
    /\ last_dedup.op = "check_and_register"
    /\ last_dedup.image_bytes = <<>>
    /\ last_dedup.raised
    /\ known_ids # {}

(***************************************************************************)
(* check_and_register called from several threads (SpecDedupConc).  Each   *)
(* thread makes one call; a step is the part of the call up to the         *)
(* membership test, or the insert that follows it.                         *)
(***************************************************************************)
InitDedupConc == InitDedup

NextDedupConc ==
    \/ \E t \in Threads, image_bytes \in ImageBytes :
           /\ CarTest(t, image_bytes)
           /\ UNCHANGED <<appVars, last_dedup, prev_dedup, storeVars, storeThreadVars>>
    \/ \E t \in Threads :
           /\ CarRegister(t)
           /\ UNCHANGED <<appVars, last_dedup, prev_dedup, storeVars, storeThreadVars>>

SpecDedupConc == InitDedupConc /\ [][NextDedupConc]_vars

\* C1: when all threads have called check_and_register with the same
\* content, whose identity was not in the registry when each call began,
\* exactly one of them was told is_duplicate = False and the others True.
C1_ExactlyOneNew ==
    \A image_bytes \in ImageBytes \ {<<>>} :
        (\A t \in Threads :
            /\ car_pc[t] = "done"
            /\ car_local[t].image_bytes = image_bytes
            /\ car_local[t].image_id \notin car_local[t].known_before)
        => Cardinality({t \in Threads : ~car_ret[t].is_duplicate}) = 1

(***************************************************************************)
(* add_text_vector / add_image_vector called from several threads          *)
(* (SpecStoreConc), on a loaded, empty store.  Each thread makes one call, *)
(* in three steps: the lookup and the read of ntotal (lines 257-265), the  *)
(* index.add (line 268), the two mapping updates and the return (lines     *)
(* 271-274).                                                               *)
(***************************************************************************)
index_of_kind(s, kind) == IF kind = "text" THEN s.text_index ELSE s.image_index

forward_of_kind(s, kind) ==
    IF kind = "text" THEN s.text_id_to_image_id ELSE s.image_id_to_image_id

reverse_of_kind(s, kind) ==
    IF kind = "text" THEN s.image_id_to_text_vector
    ELSE s.image_id_to_image_vector

embedding(kind, image_id) ==
    IF kind = "text" THEN text_embedding(image_id)
    ELSE image_embedding(image_id)

AddStart(t, kind, vector, image_id) ==
    LET s == ensure_loaded(faiss_store, disk) IN
    /\ add_pc[t] = "idle"
    /\ faiss_store' = s
    /\ IF already_exists(reverse_of_kind(s, kind), image_id)
       THEN /\ add_pc' = [add_pc EXCEPT ![t] = "done"]
            /\ add_ret' = [add_ret EXCEPT ![t] =
                              reverse_of_kind(s, kind)[image_id]]
            /\ add_local' = [add_local EXCEPT ![t] =
                   [kind |-> kind, vector |-> vector, image_id |-> image_id,
                    vector_id |-> None]]
       ELSE /\ add_pc' = [add_pc EXCEPT ![t] = "add"]
            /\ add_local' = [add_local EXCEPT ![t] =
                   [kind |-> kind, vector |-> vector, image_id |-> image_id,
                    vector_id |-> next_vector_id(index_of_kind(s, kind))]]
            /\ UNCHANGED add_ret

AddAppend(t) ==
    LET l == add_local[t]
        entry == [vector |-> l.vector, vector_id |-> l.vector_id] IN
    /\ add_pc[t] = "add"
    /\ IF add_raises(l.vector)
       THEN /\ add_pc' = [add_pc EXCEPT ![t] = "done"]
            /\ add_ret' = [add_ret EXCEPT ![t] = None]
            /\ UNCHANGED faiss_store
       ELSE /\ add_pc' = [add_pc EXCEPT ![t] = "map"]
            /\ faiss_store' =
                 IF l.kind = "text"
                 THEN [faiss_store EXCEPT !.text_index = Append(@, entry)]
                 ELSE [faiss_store EXCEPT !.image_index = Append(@, entry)]
            /\ UNCHANGED add_ret
    /\ UNCHANGED add_local

AddMap(t) ==
    LET l == add_local[t] IN
    /\ add_pc[t] = "map"
    /\ faiss_store' =
         IF l.kind = "text"
         THEN [faiss_store EXCEPT
                 !.text_id_to_image_id = MapPut(@, l.vector_id, l.image_id),
                 !.image_id_to_text_vector = MapPut(@, l.image_id, l.vector_id)]
         ELSE [faiss_store EXCEPT
                 !.image_id_to_image_id = MapPut(@, l.vector_id, l.image_id),
                 !.image_id_to_image_vector = MapPut(@, l.image_id, l.vector_id)]
    /\ add_ret' = [add_ret EXCEPT ![t] = l.vector_id]
    /\ add_pc' = [add_pc EXCEPT ![t] = "done"]
    /\ UNCHANGED add_local

InitStoreConc ==
    /\ AppIdle
    /\ DedupInit
    /\ DedupThreadIdle
    /\ faiss_store = create_indices(NewStore)
    /\ disk = EmptyDisk
    /\ last_store = NoStoreCall
    /\ saved_state = NothingSaved
    /\ n_calls = 0
    /\ StoreThreadIdle

NextStoreConc ==
    \/ \E t \in Threads, kind \in {"text", "image"}, image_id \in ImageIds :
       \E vector \in {embedding(kind, image_id), TooLong} :
           /\ AddStart(t, kind, vector, image_id)
           /\ UNCHANGED <<appVars, dedupVars, dedupThreadVars, disk, last_store,
                          saved_state, n_calls>>
    \/ \E t \in Threads :
           /\ AddAppend(t)
           /\ UNCHANGED <<appVars, dedupVars, dedupThreadVars, disk, last_store,
                          saved_state, n_calls>>
    \/ \E t \in Threads :
           /\ AddMap(t)
           /\ UNCHANGED <<appVars, dedupVars, dedupThreadVars, disk, last_store,
                          saved_state, n_calls>>

SpecStoreConc == InitStoreConc /\ [][NextStoreConc]_vars

Added(t) == add_pc[t] = "done" /\ add_ret[t] # None

\* C7: two threads that added vectors of the same kind for distinct
\* identities hold distinct vector ids, both vectors are in the index, and
\* each returned id is mapped to the caller's identity and is the position of
\* the caller's vector; a thread that is alone in adding to its kind gets the
\* first id of that kind whatever the threads of the other kind do.
C7_ConcurrentAddsDistinct ==
    /\ \A t1 \in Threads : \A t2 \in Threads \ {t1} :
          (/\ Added(t1) /\ Added(t2)
           /\ add_local[t1].kind = add_local[t2].kind
           /\ add_local[t1].image_id # add_local[t2].image_id) =>
              LET kind == add_local[t1].kind
                  index == index_of_kind(faiss_store, kind)
                  forward == forward_of_kind(faiss_store, kind) IN
              /\ add_ret[t1] # add_ret[t2]
              /\ \A t \in {t1, t2} :
                    /\ add_ret[t] < ntotal(index)
                    /\ index[add_ret[t] + 1].vector = add_local[t].vector
                    /\ add_ret[t] \in DOMAIN forward
                    /\ forward[add_ret[t]] = add_local[t].image_id
    /\ \A t \in Threads :
          (/\ Added(t)
           /\ \A o \in Threads \ {t} :
                 add_pc[o] # "idle" /\ add_local[o].kind # add_local[t].kind)
              => add_ret[t] = 0

(***************************************************************************)
(* Hybrid search over a store filled by add_text_vector / add_image_vector *)
(* (SpecSearch).                                                           *)
(***************************************************************************)
MaxK == 2

\* the store is filled by at most MaxAdds calls, then queried once
MaxAdds == 3

\* query vectors of the store's dimension
QueryVectors == [1..dimension -> 0..2]

HybridSearch(query_vector, k) ==
    LET s == ensure_loaded(faiss_store, disk) IN
    /\ faiss_store' = s
    /\ last_store' = [NoStoreCall EXCEPT !.op = "hybrid_search"]
    /\ last_search' =
         [query_vector |-> query_vector, k |-> k,
          results |-> hybrid_search(s, query_vector, k,
                                    TEXT_SIMILARITY_WEIGHT,
                                    IMAGE_SIMILARITY_WEIGHT)]
    /\ UNCHANGED <<disk, saved_state, n_calls>>

InitSearch == Init

NextSearch ==
    \/ \E image_id \in ImageIds :
           /\ n_calls < MaxAdds
           /\ last_search = NoSearch
           /\ AddTextVector(text_embedding(image_id), image_id)
           /\ UNCHANGED <<dedupVars, dedupThreadVars, storeThreadVars,
                          appVars>>
    \/ \E image_id \in ImageIds :
           /\ n_calls < MaxAdds
           /\ last_search = NoSearch
           /\ AddImageVector(image_embedding(image_id), image_id)
           /\ UNCHANGED <<dedupVars, dedupThreadVars, storeThreadVars,
                          appVars>>
    \/ \E query_vector \in QueryVectors, k \in 1..MaxK :
           /\ last_search = NoSearch
           /\ HybridSearch(query_vector, k)
           /\ UNCHANGED <<dedupVars, dedupThreadVars, storeThreadVars,
                          last_index, stamps, indexVars, ingestVars,
                          embedVars>>

SpecSearch == InitSearch /\ [][NextSearch]_vars

\* the identities and scores of one side's result list
hits(results, forward) ==
    {[image_id |-> forward[results[i].vector_id], score |-> results[i].score] :
        i \in {j \in 1..Len(results) : results[j].vector_id \in DOMAIN forward}}

\* what the text and the image search return for the last query when asked
\* for three times its k
TextHits ==
    hits(search_text(faiss_store, last_search.query_vector,
                     3 * last_search.k),
         faiss_store.text_id_to_image_id)

ImageHits ==
    hits(search_image(faiss_store, last_search.query_vector,
                      3 * last_search.k),
         faiss_store.image_id_to_image_id)

Pool == {h.image_id : h \in TextHits \cup ImageHits}

ItemA == CHOOSE image_id \in ImageIds : TRUE

ItemB == CHOOSE image_id \in ImageIds : image_id # ItemA

\* C12: an identity returned by hybrid_search that was in both result sets
\* has the score text_weight * text score + image_weight * image score; one
\* that was in only one result set has that side's score unweighted.  With
\* the weights 0.7 / 0.3, A (text 0.90, image 0.50) and B (text 0.95 only)
\* come out as [B (0.95), A (0.78)].
C12_FusedScore ==
    /\ last_store.op = "hybrid_search" =>
          \A i \in 1..Len(last_search.results) :
              LET e == last_search.results[i]
                  t == {h \in TextHits : h.image_id = e.image_id}
                  m == {h \in ImageHits : h.image_id = e.image_id} IN
              /\ (t # {} /\ m # {}) =>
                    \E ht \in t, hm \in m :
                        e.score = TEXT_SIMILARITY_WEIGHT * ht.score
                                    + IMAGE_SIMILARITY_WEIGHT * hm.score
              /\ (t # {} /\ m = {}) =>
                    \E ht \in t : e.score = WeightOne * ht.score
              /\ (t = {} /\ m # {}) =>
                    \E hm \in m : e.score = WeightOne * hm.score
    /\ fuse(<<[vector_id |-> 1, score |-> 95], [vector_id |-> 0, score |-> 90]>>,
            <<[vector_id |-> 0, score |-> 50]>>,
            (0 :> ItemA) @@ (1 :> ItemB), (0 :> ItemA), 2,
            TEXT_SIMILARITY_WEIGHT, IMAGE_SIMILARITY_WEIGHT)
         = <<[image_id |-> ItemB, score |-> 950],
             [image_id |-> ItemA, score |-> 780]>>

side_score(side_hits, image_id) ==
    IF \E h \in side_hits : h.image_id = image_id
    THEN (CHOOSE h \in side_hits : h.image_id = image_id).score
    ELSE 0

\* the combined score the code gives an identity of the pool
pool_score(image_id) ==
    final_score(side_score(TextHits, image_id), side_score(ImageHits, image_id),
                TEXT_SIMILARITY_WEIGHT, IMAGE_SIMILARITY_WEIGHT)

\* C13: hybrid_search(q, k) asks each index for 3k results and returns the
\* min(k, pool size) identities of that pool with the highest combined
\* scores, each once, with its combined score, by score non-increasing; every
\* returned identity is mapped in at least one of the two indices.
C13_HybridTopK ==
    last_store.op = "hybrid_search" =>
        LET res == last_search.results
            returned == {res[i].image_id : i \in 1..Len(res)} IN
        /\ Len(res) <= last_search.k
        /\ Len(res) = Min(last_search.k, Cardinality(Pool))
        /\ \A i \in 1..(Len(res) - 1) : res[i].score >= res[i + 1].score
        /\ \A i, j \in 1..Len(res) :
              res[i].image_id = res[j].image_id => i = j
        /\ \A i \in 1..Len(res) :
              /\ res[i].image_id \in Pool
              /\ res[i].score = pool_score(res[i].image_id)
              /\ \/ res[i].image_id \in DOMAIN faiss_store.image_id_to_text_vector
                 \/ res[i].image_id \in DOMAIN faiss_store.image_id_to_image_vector
        /\ \A image_id \in Pool \ returned :
              pool_score(image_id) <= res[Len(res)].score

\* C13 witness: a query with k = 1 over a pool of two identities, one of
\* them in both indices, returned one pair
C13_Witness ==
    /\ last_store.op = "hybrid_search"
    /\ last_search.k = 1
    /\ Len(last_search.results) = 1
    /\ Cardinality(Pool) = 2
    /\ \E h \in TextHits : \E g \in ImageHits :
          h.image_id = g.image_id /\ h.score > 0 /\ g.score > 0

(***************************************************************************)
(* The ingestion pipeline (SpecIngest): POST /ingest and the steps of      *)
(* run_ingestion_pipeline, one per update_job_status call, with the        *)
(* failures of its environment and process restarts.                       *)
(***************************************************************************)
\* an uploaded memories.json: unparsable, without a valid image entry, or a
\* list of image entries, each standing for the content its URL serves
Manifests ==
    {[kind |-> "malformed", contents |-> <<>>],
     [kind |-> "no_valid", contents |-> <<>>]}
    \cup {[kind |-> "entries", contents |-> c] :
             c \in UNION {[1..n -> 1..NumContents] : n \in 1..MaxEntries}}

parse_memories_json(json_content) ==
    [raised |-> json_content.kind # "entries", entries |-> json_content.contents]

NoFields == [x \in {} |-> 0]

Progress(progress) == [progress |-> progress]

\* update_job_status(job_id, status, current_step, progress, **kwargs) as
\* the new _jobs; progress is 0 when the call does not give it
update_job_status(job_id, status, fields) ==
    LET old == IF jobs[job_id].status = "NONE"
               THEN [NoJob EXCEPT !.errors = <<>>]
               ELSE jobs[job_id]
        new == [f \in DOMAIN old |->
                   IF f = "status" THEN status
                   ELSE IF f \in DOMAIN fields THEN fields[f]
                   ELSE IF f = "progress" THEN 0
                   ELSE old[f]] IN
    [jobs EXCEPT ![job_id] = new]

\* INSERT OR REPLACE INTO images
save_image_metadata(table, image_id, entry) == MapPut(table, image_id, entry)

\* the registry _load_existing_ids builds from the master index file
load_ids(file) == IF file.state = "ok" THEN file.keys ELSE {}

\* save_master_index_json: the file it leaves when it returns
save_master_index_json(table) == [state |-> "ok", keys |-> DOMAIN table]

\* the lists successful_downloads can be: any of the entries. as_completed
\* yields them in the order in which the downloads end; the manifests hold
\* every order of the same contents, so the lists are taken in the order of
\* the manifest
RECURSIVE select(_, _)
select(entries, keep) ==
    IF entries = <<>> THEN <<>>
    ELSE LET front == select(SubSeq(entries, 1, Len(entries) - 1), keep) IN
         IF Len(entries) \in keep THEN Append(front, entries[Len(entries)])
         ELSE front

Completions(entries) == {select(entries, keep) : keep \in SUBSET DOMAIN entries}

errors_of(kind, n) == [k \in 1..n |-> kind]

\* a call into the database, the network or the disk fails only while the
\* budget of failures lasts; one failure of the network can fail several
\* downloads of a job
Fault(n) ==
    /\ n_faults + n <= MaxFaults
    /\ n_faults' = n_faults + n

\* ingest_memories: POST /ingest
IngestMemories(json_content) ==
    /\ run.pc = "idle"
    /\ n_jobs < MaxJobs
    /\ n_jobs' = n_jobs + 1
    /\ jobs' = update_job_status(n_jobs + 1, "PENDING", NoFields)
    /\ run' = [NoRun EXCEPT !.pc = "start", !.job_id = n_jobs + 1,
                            !.json_content = json_content,
                            !.at_start = durable,
                            !.fresh = durable = NoDurable]
    /\ UNCHANGED <<indexVars, dedup_loaded, n_restarts, n_faults, first_run,
                   dedupVars>>

\* lines 82-92: init_database, status PARSING
PipelineBegin(db_ok) ==
    /\ run.pc = "start"
    /\ Fault(IF db_ok THEN 0 ELSE 1)
    /\ IF db_ok
       THEN /\ jobs' = update_job_status(run.job_id, "PARSING", Progress(5))
            /\ run' = [run EXCEPT !.pc = "parse"]
       ELSE /\ jobs' = update_job_status(run.job_id, "FAILED",
                                         [errors |-> <<"init_database">>])
            /\ run' = [run EXCEPT !.pc = "idle"]
    /\ UNCHANGED <<indexVars, dedup_loaded, n_jobs, n_restarts, first_run,
                   dedupVars>>

\* PipelineParse without the handler's way out: the job is marked FAILED
\* and the pipeline goes on to the download
PipelineParseNoReturn ==
    LET parsed == parse_memories_json(run.json_content) IN
    /\ run.pc = "parse"
    /\ jobs' = IF parsed.raised
               THEN update_job_status(run.job_id, "FAILED",
                                      [errors |-> <<"parse">>])
               ELSE update_job_status(run.job_id, "PARSING",
                                      [progress |-> 10,
                                       total_images |-> Len(parsed.entries)])
    /\ run' = [run EXCEPT !.pc = "download_start",
                          !.entries = IF parsed.raised THEN <<1>>
                                      ELSE parsed.entries]
    /\ UNCHANGED <<indexVars, dedup_loaded, n_jobs, n_restarts, n_faults,
                   first_run, dedupVars>>

\* lines 94-111: parse_memories_json; when it raises, lines 240-247
PipelineParse ==
    LET parsed == parse_memories_json(run.json_content) IN
    /\ run.pc = "parse"
    /\ IF parsed.raised
       THEN /\ jobs' = update_job_status(run.job_id, "FAILED",
                                         [errors |-> <<"parse">>])
            /\ run' = [run EXCEPT !.pc = "idle"]
       ELSE /\ jobs' = update_job_status(run.job_id, "PARSING",
                           [progress |-> 10,
                            total_images |-> Len(parsed.entries)])
            /\ run' = [run EXCEPT !.pc = "download_start",
                                  !.entries = parsed.entries]
    /\ UNCHANGED <<indexVars, dedup_loaded, n_jobs, n_restarts, n_faults,
                   first_run, dedupVars>>

\* lines 113-119: status DOWNLOADING
PipelineStartDownload ==
    /\ run.pc = "download_start"
    /\ jobs' = update_job_status(run.job_id, "DOWNLOADING", Progress(15))
    /\ run' = [run EXCEPT !.pc = "download", !.entered_downloading = TRUE]
    /\ UNCHANGED <<indexVars, dedup_loaded, n_jobs, n_restarts, n_faults,
                   first_run, dedupVars>>

\* lines 121-129: download_all_media and the status with its errors; when
\* download_all_media raises, lines 240-247
PipelineDownload(successful, raises) ==
    /\ run.pc = "download"
    /\ Fault(IF raises \/ Len(successful) < Len(run.entries) THEN 1 ELSE 0)
    /\ IF raises
       THEN /\ jobs' = update_job_status(run.job_id, "FAILED",
                                         [errors |-> <<"download_all_media">>])
            /\ run' = [run EXCEPT !.pc = "idle"]
       ELSE LET failed == Len(run.entries) - Len(successful) IN
            /\ jobs' = update_job_status(run.job_id, "DOWNLOADING",
                           [progress |-> 40,
                            errors |-> errors_of("download", failed)])
            /\ run' = [run EXCEPT !.pc = "process_start",
                                  !.successful = successful,
                                  !.failed = failed]
    /\ UNCHANGED <<indexVars, dedup_loaded, n_jobs, n_restarts, first_run,
                   dedupVars>>

\* lines 131-146: status PROCESSING, get_dedup_service (which builds the
\* registry on its first use in a process), the counters
PipelineStartProcessing ==
    /\ run.pc = "process_start"
    /\ jobs' = update_job_status(run.job_id, "PROCESSING", Progress(45))
    /\ known_ids' = IF dedup_loaded THEN known_ids ELSE load_ids(master_index)
    /\ dedup_loaded' = TRUE
    /\ run' = [run EXCEPT !.pc = "process", !.built = ~dedup_loaded]
    /\ UNCHANGED <<indexVars, n_jobs, n_restarts, n_faults, first_run,
                   last_dedup, prev_dedup>>

ItemOutcomes == {"ok", "process_failed", "upload_failed", "save_raised"}

\* progress = 45 + (processed / len(successful_downloads)) * 45, rounded down
\* to a whole percent
loop_progress(processed, downloaded) == 45 + (processed * 45) \div downloaded

\* errors.append(...) and break: the loop gives up the remaining items
append_error_and_break(r, error) ==
    [r EXCEPT !.errors = Append(@, error), !.successful = <<>>]

\* errors.append(...) and continue (lines 152-154, 178-180, 205-207)
append_error(r, error) == [r EXCEPT !.errors = Append(@, error)]

\* lines 147-207: one iteration of the loop over successful_downloads.
\* outcome says what the environment does to this item: process_media_file
\* fails, the upload fails, or save_image_metadata (or parse_date_string
\* before it) raises
PipelineProcessItem(outcome) ==
    LET content == Head(run.successful)
        image_bytes == <<content>>
        rest == [run EXCEPT !.successful = Tail(@),
                            !.outcomes = Append(@, [content |-> content,
                                                    outcome |-> outcome])] IN
    /\ run.pc = "process"
    /\ run.successful # <<>>
    /\ Fault(IF outcome = "ok" THEN 0 ELSE 1)
    /\ IF outcome = "process_failed"
       THEN /\ run' = append_error(rest, "processing")
            /\ UNCHANGED <<dedupVars, indexVars, jobs>>
       ELSE /\ check_and_register(image_bytes)
            /\ UNCHANGED prev_dedup
            /\ LET image_id == last_dedup'.image_id
                   seen == [rest EXCEPT !.registered = Append(@, content)] IN
               IF last_dedup'.is_duplicate
               THEN /\ outcome = "ok"
                    /\ run' = [seen EXCEPT
                                  !.duplicates = @ + 1,
                                  !.outcomes = Append(run.outcomes,
                                      [content |-> content,
                                       outcome |-> "duplicate"])]
                    /\ UNCHANGED <<indexVars, jobs>>
               ELSE IF outcome = "upload_failed"
               THEN /\ run' = [append_error(seen, "upload") EXCEPT
                                  !.store_failed = TRUE]
                    /\ UNCHANGED <<indexVars, jobs>>
               ELSE IF outcome = "save_raised"
               THEN /\ objects' = objects \cup {image_id}
                    /\ run' = [append_error(seen, "save") EXCEPT
                                  !.store_failed = TRUE]
                    /\ UNCHANGED <<images, master_index, jobs>>
               ELSE /\ objects' = objects \cup {image_id}
                    /\ images' = save_image_metadata(images, image_id, NewRow)
                    /\ run' = [seen EXCEPT !.uploaded = @ + 1,
                                           !.processed = @ + 1]
                    /\ jobs' = update_job_status(run.job_id, "PROCESSING",
                                  [progress |-> loop_progress(
                                       run.processed + 1,
                                       Len(run.entries) - run.failed),
                                   processed_images |-> run.processed + 1,
                                   duplicates_skipped |-> run.duplicates])
                    /\ UNCHANGED master_index
    /\ UNCHANGED <<dedup_loaded, n_jobs, n_restarts, first_run>>

\* PipelineStartIndexing without its update_job_status
PipelineSkipIndexing ==
    /\ run.pc = "process"
    /\ run.successful = <<>>
    /\ run' = [run EXCEPT !.pc = "index"]
    /\ UNCHANGED <<indexVars, dedup_loaded, jobs, n_jobs, n_restarts, n_faults,
                   first_run, dedupVars>>

\* lines 209-215: the loop is over, status INDEXING
PipelineStartIndexing ==
    /\ run.pc = "process"
    /\ run.successful = <<>>
    /\ jobs' = update_job_status(run.job_id, "INDEXING", Progress(92))
    /\ run' = [run EXCEPT !.pc = "index"]
    /\ first_run' = IF first_run # NoFirstRun THEN first_run
                    ELSE [job_id |-> run.job_id,
                          json_content |-> run.json_content,
                          images |-> images,
                          known |-> Cardinality(known_ids),
                          clean |-> run.errors = <<>> /\ run.failed = 0]
    /\ UNCHANGED <<indexVars, dedup_loaded, n_jobs, n_restarts, n_faults,
                   dedupVars>>

IndexOutcomes == {"ok", "open_failed", "torn"}

\* lines 217-232: cleanup_temp_files, save_master_index_json, status
\* COMPLETED; when the write of the master index raises, lines 240-247
PipelineFinish(outcome) ==
    /\ run.pc = "index"
    /\ Fault(IF outcome = "ok" THEN 0 ELSE 1)
    /\ IF outcome = "ok"
       THEN /\ master_index' = save_master_index_json(images)
            /\ jobs' = update_job_status(run.job_id, "COMPLETED",
                          [progress |-> 100,
                           processed_images |-> run.uploaded,
                           duplicates_skipped |-> run.duplicates,
                           errors |-> run.errors])
       ELSE /\ master_index' = IF outcome = "torn" THEN TornMasterIndex
                               ELSE master_index
            /\ jobs' = update_job_status(run.job_id, "FAILED",
                          [errors |-> <<"save_master_index_json">>])
    /\ run' = [run EXCEPT !.pc = "idle"]
    /\ UNCHANGED <<images, objects, dedup_loaded, n_jobs, n_restarts,
                   first_run, dedupVars>>

\* the process is stopped, at any point, and started again: the job table,
\* the registry and a running pipeline are gone, the files and the database
\* stay
RestartProcess ==
    /\ n_restarts < MaxRestarts
    /\ n_restarts' = n_restarts + 1
    /\ jobs' = [j \in JobIds |-> NoJob]
    /\ run' = NoRun
    /\ dedup_loaded' = FALSE
    /\ known_ids' = {}
    /\ last_dedup' = NoCall
    /\ prev_dedup' = NoCall
    /\ UNCHANGED <<indexVars, n_jobs, n_faults, first_run>>

InitIngest == Init

NextIngest ==
    \/ \E json_content \in Manifests :
           /\ IngestMemories(json_content)
           /\ UNCHANGED <<dedupThreadVars, storeVars, storeThreadVars,
                          last_search, last_index, stamps, embedVars>>
    \/ \E db_ok \in BOOLEAN :
           /\ PipelineBegin(db_ok)
           /\ UNCHANGED <<dedupThreadVars, storeVars, storeThreadVars,
                          last_search, last_index, stamps, embedVars>>
    \/ /\ PipelineParse
       /\ UNCHANGED <<dedupThreadVars, storeVars, storeThreadVars,
                      last_search, last_index, stamps, embedVars>>
    \/ /\ PipelineStartDownload
       /\ UNCHANGED <<dedupThreadVars, storeVars, storeThreadVars,
                      last_search, last_index, stamps, embedVars>>
    \/ \E successful \in Completions(run.entries), raises \in BOOLEAN :
           /\ PipelineDownload(successful, raises)
           /\ UNCHANGED <<dedupThreadVars, storeVars, storeThreadVars,
                          last_search, last_index, stamps, embedVars>>
    \/ /\ PipelineStartProcessing
       /\ UNCHANGED <<dedupThreadVars, storeVars, storeThreadVars,
                      last_search, last_index, stamps, embedVars>>
    \/ \E outcome \in ItemOutcomes :
           /\ PipelineProcessItem(outcome)
           /\ UNCHANGED <<dedupThreadVars, storeVars, storeThreadVars,
                          last_search, last_index, stamps, embedVars>>
    \/ /\ PipelineStartIndexing
       /\ UNCHANGED <<dedupThreadVars, storeVars, storeThreadVars,
                      last_search, last_index, stamps, embedVars>>
    \/ \E outcome \in IndexOutcomes :
           /\ PipelineFinish(outcome)
           /\ UNCHANGED <<dedupThreadVars, storeVars, storeThreadVars,
                          last_search, last_index, stamps, embedVars>>
    \/ /\ RestartProcess
       /\ UNCHANGED <<dedupThreadVars, storeVars, storeThreadVars,
                      last_search, last_index, stamps, embedVars>>

SpecIngest == InitIngest /\ [][NextIngest]_vars

Stages == <<"PENDING", "PARSING", "DOWNLOADING", "PROCESSING", "INDEXING",
            "COMPLETED">>

stage_of(status) ==
    IF \E k \in DOMAIN Stages : Stages[k] = status
    THEN CHOOSE k \in DOMAIN Stages : Stages[k] = status
    ELSE 0

\* one step of a job's status: none, the entry into the next stage, or the
\* failure of a job that has not ended; a job the process no longer holds
\* has no status
Forward(old, new) ==
    \/ new = old
    \/ old = "NONE" /\ new = "PENDING"
    \/ stage_of(old) > 0 /\ stage_of(new) = stage_of(old) + 1
    \/ stage_of(old) \in 1..(Len(Stages) - 1) /\ new = "FAILED"
    \/ new = "NONE"

\* C14: the status of a job only moves along PENDING, PARSING, DOWNLOADING,
\* PROCESSING, INDEXING, COMPLETED, one stage at a time, or from a stage
\* before COMPLETED to FAILED; a job that is COMPLETED or FAILED keeps its
\* status.
C14_StatusForward ==
    [][\A j \in JobIds : Forward(jobs[j].status, jobs'[j].status)]_vars

\* a job is COMPLETED and stayed so while a later job ran and FAILED
C14_Witness ==
    /\ jobs[1].status = "COMPLETED"
    /\ jobs[2].status = "FAILED"

Range(seq) == {seq[k] : k \in DOMAIN seq}

\* C15: a job in which a download fails and another item is downloaded
\* processes every downloaded item and ends COMPLETED with the download
\* failure in its error list.
C15_DownloadFailureReported ==
    (/\ run.pc = "idle"
     /\ run.failed > 0
     /\ run.failed < Len(run.entries)
     /\ jobs[run.job_id].status = "COMPLETED") =>
        /\ Len(run.registered) + Len(run.errors)
               = Len(run.entries) - run.failed
        /\ jobs[run.job_id].errors # <<>>
        /\ "download" \in Range(jobs[run.job_id].errors)

C17_ParseFailureNoChange ==
    (run.job_id # 0 /\ parse_memories_json(run.json_content).raised) =>
        /\ ~run.entered_downloading
        /\ jobs[run.job_id].status \in {"PENDING", "PARSING", "FAILED"}
        /\ run.pc = "idle" => jobs[run.job_id].status = "FAILED"
        /\ durable = run.at_start
        /\ faiss_store = NewStore
        /\ disk = EmptyDisk

\* a manifest failed to parse in a system that held rows already
C17_Witness ==
    /\ run.job_id = 2
    /\ run.pc = "idle"
    /\ jobs[2].errors = <<"parse">>
    /\ jobs[2].status = "FAILED"
    /\ DOMAIN images # {}
    /\ known_ids # {}

\* C18: a second run of the pipeline over the input of the first, in the
\* same process or after a restart, both runs downloading and storing every
\* item, leaves the rows and the number of known identities as the first run
\* left them and counts every item as a duplicate.
C18_ReingestionConverges ==
    (/\ first_run.job_id # 0
     /\ first_run.clean
     /\ run.job_id > first_run.job_id
     /\ run.json_content = first_run.json_content
     /\ run.pc = "index"
     /\ run.failed = 0
     /\ run.errors = <<>>) =>
        /\ images = first_run.images
        /\ Cardinality(known_ids) = first_run.known
        /\ run.duplicates = Len(run.entries)
        /\ run.uploaded = 0

\* C19: between two iterations of the processing loop, and after the last,
\* the registry is the set of the identities that have a row.
C19_RegistryEqualsStore ==
    (/\ run.pc \in {"process", "index"}
     /\ run.registered # <<>>) =>
        known_ids = DOMAIN images

\* the uploads of a run that failed, and the rows it failed to write
count(errors, kind) == Cardinality({k \in DOMAIN errors : errors[k] = kind})

\* C24: a job in which every upload fails ends FAILED.
C24_AllUploadsFailedIsFatal ==
    (/\ run.pc = "idle"
     /\ run.job_id # 0
     /\ jobs[run.job_id].status \in {"COMPLETED", "FAILED"}
     /\ count(run.errors, "upload") > 0
     /\ count(run.errors, "save") = 0
     /\ run.uploaded = 0) =>
        jobs[run.job_id].status = "FAILED"

\* C26: the progress of a job never goes down, whatever its status becomes.
C26_ProgressMonotone ==
    [][\A j \in JobIds :
          jobs'[j].status # "NONE" => jobs'[j].progress >= jobs[j].progress]_vars

\* C29: the registry a process builds on its first use equals the set of
\* the identities that have a row at that moment.
C29_RegistryBuiltFromStore ==
    (/\ run.pc = "process"
     /\ run.built
     /\ run.registered = <<>>) =>
        known_ids = DOMAIN images

(***************************************************************************)
(* The ingestion pipeline on a manifest with more entries than an error    *)
(* list may hold (SpecBulk).                                               *)
(***************************************************************************)
\* errors[:10] in api/embeddings.py
ErrorListCap == 10

BulkManifest ==
    [kind |-> "entries", contents |-> [k \in 1..(ErrorListCap + 1) |-> 1]]

InitBulk == Init

NextBulk ==
    \/ \E json_content \in {BulkManifest} :
           /\ IngestMemories(json_content)
           /\ UNCHANGED <<dedupThreadVars, storeVars, storeThreadVars,
                          last_search, last_index, stamps, embedVars>>
    \/ \E db_ok \in BOOLEAN :
           /\ PipelineBegin(db_ok)
           /\ UNCHANGED <<dedupThreadVars, storeVars, storeThreadVars,
                          last_search, last_index, stamps, embedVars>>
    \/ /\ PipelineParse
       /\ UNCHANGED <<dedupThreadVars, storeVars, storeThreadVars,
                      last_search, last_index, stamps, embedVars>>
    \/ /\ PipelineStartDownload
       /\ UNCHANGED <<dedupThreadVars, storeVars, storeThreadVars,
                      last_search, last_index, stamps, embedVars>>
    \/ \E successful \in Completions(run.entries), raises \in BOOLEAN :
           /\ PipelineDownload(successful, raises)
           /\ UNCHANGED <<dedupThreadVars, storeVars, storeThreadVars,
                          last_search, last_index, stamps, embedVars>>
    \/ /\ PipelineStartProcessing
       /\ UNCHANGED <<dedupThreadVars, storeVars, storeThreadVars,
                      last_search, last_index, stamps, embedVars>>
    \/ \E outcome \in ItemOutcomes :
           /\ PipelineProcessItem(outcome)
           /\ UNCHANGED <<dedupThreadVars, storeVars, storeThreadVars,
                          last_search, last_index, stamps, embedVars>>
    \/ /\ PipelineStartIndexing
       /\ UNCHANGED <<dedupThreadVars, storeVars, storeThreadVars,
                      last_search, last_index, stamps, embedVars>>
    \/ \E outcome \in IndexOutcomes :
           /\ PipelineFinish(outcome)
           /\ UNCHANGED <<dedupThreadVars, storeVars, storeThreadVars,
                          last_search, last_index, stamps, embedVars>>
    \/ /\ RestartProcess
       /\ UNCHANGED <<dedupThreadVars, storeVars, storeThreadVars,
                      last_search, last_index, stamps, embedVars>>

SpecBulk == InitBulk /\ [][NextBulk]_vars

\* C27: the error list of a job never holds more than 10 entries.
C27_ErrorListBounded ==
    \A j \in JobIds : Len(jobs[j].errors) <= ErrorListCap

(***************************************************************************)
(* The table images under its three writers (app/services/indexer.py).     *)
(***************************************************************************)
MaxIndexCalls == 2

Captions == {None, 1}

VectorRefs == {None} \cup (0..(MaxVectors - 1))

Rows == [caption : Captions, text_vector_id : VectorRefs,
         image_vector_id : VectorRefs]

\* COALESCE(?, column)
COALESCE(value, column) == IF value # None THEN value ELSE column

\* UPDATE images SET text_vector_id = COALESCE(?, text_vector_id), ...
update_vector_ids(table, image_id, text_vector_id, image_vector_id) ==
    IF image_id \in DOMAIN table
    THEN [table EXCEPT
             ![image_id].text_vector_id = COALESCE(text_vector_id, @),
             ![image_id].image_vector_id = COALESCE(image_vector_id, @)]
    ELSE table

\* UPDATE images SET caption = ? WHERE image_id = ?
\* the UPDATE without its WHERE clause
update_caption_unkeyed(table, image_id, caption) ==
    [i \in DOMAIN table |-> [table[i] EXCEPT !.caption = caption]]

update_caption(table, image_id, caption) ==
    IF image_id \in DOMAIN table
    THEN [table EXCEPT ![image_id].caption = caption]
    ELSE table

\* the longest time between two readings of datetime.utcnow(), in ticks
MaxTick == 2

\* INSERT OR REPLACE with created_at = now
created_at_now(times, image_id, now) == now

\* COALESCE((SELECT created_at FROM images WHERE image_id = ?), now)
created_at(times, image_id, now) ==
    IF image_id \in DOMAIN times THEN times[image_id].created_at ELSE now

\* the columns created_at and updated_at after a call that read now
stamp(op, times, image_id, now) ==
    IF op = "save_image_metadata"
    THEN MapPut(times, image_id,
                [created_at |-> created_at(times, image_id, now),
                 updated_at |-> now])
    ELSE IF image_id \in DOMAIN times
    THEN [times EXCEPT ![image_id].updated_at = now]
    ELSE times

IndexCall(op, image_id, table) ==
    /\ last_index.n < MaxIndexCalls
    /\ images' = table
    /\ \E tick \in 1..MaxTick :
           stamps' = [clock |-> stamps.clock + tick,
                      of |-> stamp(op, stamps.of, image_id,
                                   stamps.clock + tick)]
    /\ last_index' = [op |-> op, image_id |-> image_id,
                      existed |-> image_id \in DOMAIN images,
                      before |-> IF image_id \in DOMAIN images
                                 THEN images[image_id] ELSE NewRow,
                      after |-> IF image_id \in DOMAIN table
                                THEN table[image_id] ELSE NewRow,
                      n |-> last_index.n + 1]
    /\ UNCHANGED <<master_index, objects>>

SaveImageMetadata(image_id, entry) ==
    IndexCall("save_image_metadata", image_id,
              save_image_metadata(images, image_id, entry))

UpdateCaption(image_id, caption) ==
    IndexCall("update_caption", image_id,
              update_caption(images, image_id, caption))

UpdateVectorIds(image_id, text_vector_id, image_vector_id) ==
    IndexCall("update_vector_ids", image_id,
              update_vector_ids(images, image_id, text_vector_id,
                                image_vector_id))

InitIndexer == Init

NextIndexer ==
    \/ \E image_id \in ImageIds, entry \in Rows :
           /\ SaveImageMetadata(image_id, entry)
           /\ UNCHANGED <<dedupVars, dedupThreadVars, storeVars,
                          storeThreadVars, last_search, ingestVars,
                          embedVars>>
    \/ \E image_id \in ImageIds, caption \in Captions \ {None} :
           /\ UpdateCaption(image_id, caption)
           /\ UNCHANGED <<dedupVars, dedupThreadVars, storeVars,
                          storeThreadVars, last_search, ingestVars,
                          embedVars>>
    \/ \E image_id \in ImageIds, text_vector_id, image_vector_id \in VectorRefs :
           /\ UpdateVectorIds(image_id, text_vector_id, image_vector_id)
           /\ UNCHANGED <<dedupVars, dedupThreadVars, storeVars,
                          storeThreadVars, last_search, ingestVars,
                          embedVars>>

SpecIndexer == InitIndexer /\ [][NextIndexer]_vars

\* C20: a call of save_image_metadata, update_caption or update_vector_ids
\* on a row whose text_vector_id (image_vector_id) is not NULL leaves that
\* column as it was.
C20_VectorRefsSetOnce ==
    last_index.existed =>
        /\ last_index.before.text_vector_id # None =>
               last_index.after.text_vector_id
                   = last_index.before.text_vector_id
        /\ last_index.before.image_vector_id # None =>
               last_index.after.image_vector_id
                   = last_index.before.image_vector_id

(***************************************************************************)
(* The captioning and embedding pipelines (app/api/embeddings.py) over the *)
(* table images and the vector store (SpecEmbed).                          *)
(***************************************************************************)
EmbedModes == {"full", "caption", "embed"}

\* _embedding_jobs[key].update(kwargs)
update_embedding_job(key, fields) ==
    LET old == embedding_jobs[key] IN
    [embedding_jobs EXCEPT ![key] =
        [f \in DOMAIN old |-> IF f \in DOMAIN fields THEN fields[f] ELSE old[f]]]

\* ORDER BY created_at: the rows in the order of their contents' numbers
RECURSIVE ordered(_)
ordered(ids) ==
    IF ids = {} THEN <<>>
    ELSE LET first == CHOOSE i \in ids :
                          \A j \in ids : content_of(i) <= content_of(j) IN
         <<first>> \o ordered(ids \ {first})

\* SELECT * FROM images WHERE caption IS NULL
get_images_without_captions(table) ==
    ordered({i \in DOMAIN table : table[i].caption = None})

\* the query without its test of the vector ids
get_images_with_captions(table) ==
    ordered({i \in DOMAIN table : table[i].caption # None})

\* SELECT * FROM images WHERE caption IS NOT NULL
\*   AND (text_vector_id IS NULL OR image_vector_id IS NULL)
get_images_with_captions_without_embeddings(table) ==
    ordered({i \in DOMAIN table :
                /\ table[i].caption # None
                /\ \/ table[i].text_vector_id = None
                   \/ table[i].image_vector_id = None})

\* result.caption of generate_caption
caption_of(image_id) == 1

\* errors[:10]
errors_head(errors) ==
    SubSeq(errors, 1, IF Len(errors) < ErrorListCap THEN Len(errors)
                      ELSE ErrorListCap)

\* read_index or json.load raises inside load_indices (lines 154-161)
load_raises(d) ==
    /\ d.text.state # "absent"
    /\ d.image.state # "absent"
    /\ \/ d.text.state = "torn"
       \/ d.image.state = "torn"
       \/ d.mapping.state = "torn"

\* the key under which the running pipeline reports
key_of(part) == <<embed.job, IF embed.mode = "full" THEN part ELSE "main">>

\* where the task goes on when the pipeline returns
after_caption == IF embed.mode = "full" THEN "full_middle" ELSE "idle"

after_embed == IF embed.mode = "full" THEN "full_finish" ELSE "idle"

\* process_embeddings: POST /embeddings/process
ProcessEmbeddings(mode) ==
    /\ embed.pc = "idle"
    /\ embed.job < MaxEmbedJobs
    /\ embedding_jobs' = update_embedding_job(<<embed.job + 1, "main">>,
                                              [status |-> "PENDING"])
    /\ embed' = [NoEmbed EXCEPT
                    !.job = embed.job + 1,
                    !.mode = mode,
                    !.captioner_loaded = embed.captioner_loaded,
                    !.embedder_loaded = embed.embedder_loaded,
                    !.pc = IF mode = "full" THEN "full_start"
                           ELSE IF mode = "caption" THEN "caption_start"
                           ELSE "embed_start"]
    /\ UNCHANGED <<images, master_index, faiss_store, disk, n_faults>>

\* run_full_pipeline lines 336-343
FullStart ==
    /\ embed.pc = "full_start"
    /\ embedding_jobs' = update_embedding_job(<<embed.job, "main">>,
                             [status |-> "PROCESSING", progress |-> 0])
    /\ embed' = [embed EXCEPT !.pc = "caption_start"]
    /\ UNCHANGED <<images, master_index, faiss_store, disk, n_faults>>

\* run_captioning_pipeline lines 90-97
CaptionStart ==
    /\ embed.pc = "caption_start"
    /\ embedding_jobs' = update_embedding_job(key_of("caption"),
                             [status |-> "PROCESSING", progress |-> 5])
    /\ embed' = [embed EXCEPT !.pc = "caption_load"]
    /\ UNCHANGED <<images, master_index, faiss_store, disk, n_faults>>

CaptionLoadOutcomes == {"ok", "model_failed", "read_raised"}

\* run_captioning_pipeline lines 99-124: load_model, the query for the rows
\* without a caption, the return when there is none.  An exception of the
\* query ends the task: nothing in the coroutine catches it.
CaptionLoad(outcome) ==
    LET rows == get_images_without_captions(images)
        begun == [embed EXCEPT !.caption_before = images,
                               !.captioner_loaded = outcome # "model_failed"] IN
    /\ embed.pc = "caption_load"
    /\ outcome = "model_failed" => ~embed.captioner_loaded
    /\ Fault(IF outcome = "ok" THEN 0 ELSE 1)
    /\ IF outcome = "model_failed"
       THEN /\ embedding_jobs' = update_embedding_job(key_of("caption"),
                                    [status |-> "FAILED",
                                     error |-> "Model loading failed"])
            /\ embed' = [begun EXCEPT !.pc = after_caption]
       ELSE IF outcome = "read_raised"
       THEN /\ embed' = [begun EXCEPT !.pc = "idle"]
            /\ UNCHANGED embedding_jobs
       ELSE IF rows = <<>>
       THEN /\ embedding_jobs' = update_embedding_job(key_of("caption"),
                                    [status |-> "COMPLETED", progress |-> 100,
                                     captioned |-> 0])
            /\ embed' = [begun EXCEPT !.pc = after_caption]
       ELSE /\ embed' = [begun EXCEPT !.pc = "caption_loop", !.images = rows,
                                      !.idx = 0, !.captioned = 0,
                                      !.errors = <<>>]
            /\ UNCHANGED embedding_jobs
    /\ UNCHANGED <<images, master_index, faiss_store, disk>>

CaptionItemOutcomes == {"ok", "load_failed", "caption_failed", "raised"}

\* progress = 10 + (idx / total) * 85, rounded down to a whole percent
caption_progress(idx, total) == 10 + (idx * 85) \div total

\* run_captioning_pipeline lines 131-160: one iteration of the loop
CaptionItem(outcome) ==
    LET image_id == embed.images[embed.idx + 1]
        total == Len(embed.images)
        result == [image_id |-> image_id, outcome |-> outcome]
        next == [embed EXCEPT !.idx = @ + 1,
                              !.caption_done = Append(@, result)] IN
    /\ embed.pc = "caption_loop"
    /\ embed.idx < Len(embed.images)
    /\ Fault(IF outcome = "ok" THEN 0 ELSE 1)
    /\ IF outcome = "load_failed"
       THEN /\ embed' = [next EXCEPT !.errors = Append(@, "load")]
            /\ UNCHANGED <<images, embedding_jobs>>
       ELSE IF outcome = "raised"
       THEN /\ embed' = [next EXCEPT !.errors = Append(@, "exception")]
            /\ UNCHANGED <<images, embedding_jobs>>
       ELSE LET captioned == IF outcome = "ok" THEN embed.captioned + 1
                             ELSE embed.captioned IN
            /\ images' = IF outcome = "ok"
                         THEN update_caption(images, image_id,
                                             caption_of(image_id))
                         ELSE images
            /\ embed' = [next EXCEPT
                            !.captioned = captioned,
                            !.errors = IF outcome = "ok" THEN @
                                       ELSE Append(@, "caption")]
            /\ embedding_jobs' = update_embedding_job(key_of("caption"),
                                    [status |-> "PROCESSING",
                                     progress |->
                                         caption_progress(embed.idx, total),
                                     captioned |-> captioned,
                                     total |-> total])
    /\ UNCHANGED <<master_index, faiss_store, disk>>

\* run_captioning_pipeline lines 162-178: unload_model,
\* save_master_index_json, the COMPLETED update.  An exception of
\* save_master_index_json ends the task.
CaptionFinish(outcome) ==
    /\ embed.pc = "caption_loop"
    /\ embed.idx = Len(embed.images)
    /\ Fault(IF outcome = "ok" THEN 0 ELSE 1)
    /\ IF outcome = "ok"
       THEN /\ master_index' = save_master_index_json(images)
            /\ embedding_jobs' = update_embedding_job(key_of("caption"),
                                    [status |-> "COMPLETED", progress |-> 100,
                                     captioned |-> embed.captioned,
                                     total |-> Len(embed.images),
                                     errors |-> errors_head(embed.errors)])
            /\ embed' = [embed EXCEPT !.pc = after_caption,
                                      !.captioner_loaded = FALSE]
       ELSE /\ master_index' = IF outcome = "torn" THEN TornMasterIndex
                               ELSE master_index
            /\ embed' = [embed EXCEPT !.pc = "idle",
                                      !.captioner_loaded = FALSE]
            /\ UNCHANGED embedding_jobs
    /\ UNCHANGED <<images, faiss_store, disk>>

\* run_full_pipeline lines 347-354
FullMiddle ==
    /\ embed.pc = "full_middle"
    /\ embedding_jobs' = update_embedding_job(<<embed.job, "main">>,
                             [status |-> "PROCESSING", progress |-> 50])
    /\ embed' = [embed EXCEPT !.pc = "embed_start"]
    /\ UNCHANGED <<images, master_index, faiss_store, disk, n_faults>>

\* run_embedding_pipeline lines 192-200
EmbedStart ==
    /\ embed.pc = "embed_start"
    /\ embedding_jobs' = update_embedding_job(key_of("embed"),
                             [status |-> "PROCESSING", progress |-> 5])
    /\ embed' = [embed EXCEPT !.pc = "embed_load"]
    /\ UNCHANGED <<images, master_index, faiss_store, disk, n_faults>>

EmbedLoadOutcomes == {"ok", "model_failed", "faiss_failed", "read_raised"}

\* run_embedding_pipeline lines 202-236: load_model, load_indices, the query
\* for the rows to embed, the return when there is none.  load_indices
\* returns False only when faiss cannot be imported.
EmbedLoad(outcome) ==
    LET loaded == load_indices(faiss_store, disk)
        rows == get_images_with_captions_without_embeddings(images)
        begun == [embed EXCEPT !.store_before = faiss_store,
                               !.selected = images,
                               !.embedder_loaded = outcome # "model_failed",
                               !.unloadable = /\ outcome # "model_failed"
                                              /\ \/ outcome = "faiss_failed"
                                                 \/ load_raises(disk)] IN
    /\ embed.pc = "embed_load"
    /\ outcome = "model_failed" => ~embed.embedder_loaded
    /\ Fault(IF outcome = "ok" THEN 0 ELSE 1)
    /\ IF outcome = "model_failed"
       THEN /\ embedding_jobs' = update_embedding_job(key_of("embed"),
                                    [status |-> "FAILED",
                                     error |-> "Model loading failed"])
            /\ embed' = [begun EXCEPT !.pc = after_embed]
            /\ UNCHANGED faiss_store
       ELSE IF outcome = "faiss_failed"
       THEN /\ embedding_jobs' = update_embedding_job(key_of("embed"),
                                    [status |-> "FAILED",
                                     error |-> "FAISS loading failed"])
            /\ embed' = [begun EXCEPT !.pc = after_embed]
            /\ UNCHANGED faiss_store
       ELSE /\ faiss_store' = loaded
            /\ IF outcome = "read_raised"
               THEN /\ embed' = [begun EXCEPT !.pc = "idle"]
                    /\ UNCHANGED embedding_jobs
               ELSE IF rows = <<>>
               THEN /\ embedding_jobs' = update_embedding_job(key_of("embed"),
                                            [status |-> "COMPLETED",
                                             progress |-> 100,
                                             embedded |-> 0])
                    /\ embed' = [begun EXCEPT !.pc = after_embed]
               ELSE /\ embed' = [begun EXCEPT !.pc = "embed_loop",
                                              !.images = rows, !.idx = 0,
                                              !.embedded = 0, !.errors = <<>>,
                                              !.done = <<>>]
                    /\ UNCHANGED embedding_jobs
    /\ UNCHANGED <<images, master_index, disk>>

EmbedItemOutcomes ==
    {"ok", "load_failed", "text_failed", "image_failed", "update_raised"}

\* progress = 10 + (idx / total) * 80, rounded down to a whole percent
embed_progress(idx, total) == 10 + (idx * 80) \div total

\* run_embedding_pipeline lines 241-297: one iteration of the loop
EmbedItem(outcome) ==
    LET image_id == embed.images[embed.idx + 1]
        total == Len(embed.images)
        text == add_text_vector(faiss_store, disk, text_embedding(image_id),
                                image_id)
        image == add_image_vector(text.store, disk, image_embedding(image_id),
                                  image_id)
        both == text.ret # None /\ image.ret # None
        result == [image_id |-> image_id, outcome |-> outcome,
                   text_vector_id |-> text.ret, image_vector_id |-> image.ret]
        next == [embed EXCEPT !.idx = @ + 1, !.done = Append(@, result)] IN
    /\ embed.pc = "embed_loop"
    /\ embed.idx < Len(embed.images)
    /\ Fault(IF outcome = "ok" THEN 0 ELSE 1)
    /\ IF outcome = "load_failed"
       THEN /\ embed' = [next EXCEPT !.errors = Append(@, "load")]
            /\ UNCHANGED <<images, faiss_store, embedding_jobs>>
       ELSE IF outcome = "update_raised"
       THEN /\ faiss_store' = image.store
            /\ embed' = [next EXCEPT !.errors = Append(@, "exception")]
            /\ UNCHANGED <<images, embedding_jobs>>
       ELSE IF outcome = "ok"
       THEN /\ faiss_store' = image.store
            /\ images' = IF both
                         THEN update_vector_ids(images, image_id, text.ret,
                                                image.ret)
                         ELSE images
            /\ embed' = [next EXCEPT !.embedded = IF both THEN @ + 1 ELSE @]
            /\ embedding_jobs' = update_embedding_job(key_of("embed"),
                                    [status |-> "PROCESSING",
                                     progress |->
                                         embed_progress(embed.idx, total),
                                     embedded |-> IF both
                                                  THEN embed.embedded + 1
                                                  ELSE embed.embedded,
                                     total |-> total])
       ELSE /\ embed' = [next EXCEPT !.errors = Append(@, outcome)]
            /\ embedding_jobs' = update_embedding_job(key_of("embed"),
                                    [status |-> "PROCESSING",
                                     progress |->
                                         embed_progress(embed.idx, total),
                                     embedded |-> embed.embedded,
                                     total |-> total])
            /\ UNCHANGED <<images, faiss_store>>
    /\ UNCHANGED <<master_index, disk>>

\* run_embedding_pipeline lines 299-305: the loop is over, status INDEXING
EmbedStartSaving ==
    /\ embed.pc = "embed_loop"
    /\ embed.idx = Len(embed.images)
    /\ embedding_jobs' = update_embedding_job(key_of("embed"),
                             [status |-> "INDEXING", progress |-> 92])
    /\ embed' = [embed EXCEPT !.pc = "embed_finish"]
    /\ UNCHANGED <<images, master_index, faiss_store, disk, n_faults>>

\* run_embedding_pipeline lines 307-326: save_indices, whose result is not
\* read, save_master_index_json, unload_model, the COMPLETED update.  An
\* exception of save_master_index_json ends the task.
EmbedFinish(files_written, torn, outcome) ==
    /\ embed.pc = "embed_finish"
    /\ Fault(IF files_written = 3 /\ outcome = "ok" THEN 0
             ELSE IF files_written < 3 /\ outcome # "ok" THEN 2 ELSE 1)
    /\ disk' = save_indices(faiss_store, disk, files_written, torn).disk
    /\ IF outcome = "ok"
       THEN /\ master_index' = save_master_index_json(images)
            /\ embedding_jobs' = update_embedding_job(key_of("embed"),
                                    [status |-> "COMPLETED", progress |-> 100,
                                     embedded |-> embed.embedded,
                                     total |-> Len(embed.images),
                                     errors |-> errors_head(embed.errors)])
            /\ embed' = [embed EXCEPT !.pc = after_embed,
                                      !.embedder_loaded = FALSE]
       ELSE /\ master_index' = IF outcome = "torn" THEN TornMasterIndex
                               ELSE master_index
            /\ embed' = [embed EXCEPT !.pc = "idle"]
            /\ UNCHANGED embedding_jobs
    /\ UNCHANGED <<images, faiss_store>>

\* run_full_pipeline lines 358-370
FullFinish ==
    /\ embed.pc = "full_finish"
    /\ embedding_jobs' = update_embedding_job(<<embed.job, "main">>,
           [status |-> "COMPLETED", progress |-> 100,
            captioned |-> embedding_jobs[<<embed.job, "caption">>].captioned,
            embedded |-> embedding_jobs[<<embed.job, "embed">>].embedded])
    /\ embed' = [embed EXCEPT !.pc = "idle"]
    /\ UNCHANGED <<images, master_index, faiss_store, disk, n_faults>>

\* what the pipelines of api/embeddings.py leave alone
embedFrame ==
    <<objects, dedupVars, dedupThreadVars, last_store, saved_state, n_calls,
      storeThreadVars, last_search, last_index, stamps, dedup_loaded, jobs, run,
      n_jobs, n_restarts, first_run>>

\* the table after ingestion jobs that stored some of the contents: a row
\* without caption and vector ids, a stored file and a master index entry
\* for each
InitEmbed ==
    /\ \E ids \in SUBSET ImageIds :
          /\ images = [i \in ids |-> NewRow]
          /\ objects = ids
          /\ master_index = IF ids = {} THEN AbsentMasterIndex
                            ELSE save_master_index_json(images)
    /\ last_search = NoSearch
    /\ last_index = NoIndexCall
    /\ stamps = NoStamps
    /\ dedup_loaded = FALSE
    /\ jobs = [j \in JobIds |-> NoJob]
    /\ run = NoRun
    /\ n_jobs = 0
    /\ n_restarts = 0
    /\ n_faults = 0
    /\ first_run = NoFirstRun
    /\ EmbedIdle
    /\ DedupInit
    /\ DedupThreadIdle
    /\ StoreInit
    /\ StoreThreadIdle

NextEmbed ==
    \/ \E mode \in EmbedModes :
           /\ ProcessEmbeddings(mode)
           /\ UNCHANGED embedFrame
    \/ /\ FullStart
       /\ UNCHANGED embedFrame
    \/ /\ CaptionStart
       /\ UNCHANGED embedFrame
    \/ \E outcome \in CaptionLoadOutcomes :
           /\ CaptionLoad(outcome)
           /\ UNCHANGED embedFrame
    \/ \E outcome \in CaptionItemOutcomes :
           /\ CaptionItem(outcome)
           /\ UNCHANGED embedFrame
    \/ \E outcome \in IndexOutcomes :
           /\ CaptionFinish(outcome)
           /\ UNCHANGED embedFrame
    \/ /\ FullMiddle
       /\ UNCHANGED embedFrame
    \/ /\ EmbedStart
       /\ UNCHANGED embedFrame
    \/ \E outcome \in EmbedLoadOutcomes :
           /\ EmbedLoad(outcome)
           /\ UNCHANGED embedFrame
    \/ \E outcome \in EmbedItemOutcomes :
           /\ EmbedItem(outcome)
           /\ UNCHANGED embedFrame
    \/ /\ EmbedStartSaving
       /\ UNCHANGED embedFrame
    \/ \E save \in SaveOutcomes, outcome \in IndexOutcomes :
           /\ EmbedFinish(save[1], save[2], outcome)
           /\ UNCHANGED embedFrame
    \/ /\ FullFinish
       /\ UNCHANGED embedFrame

SpecEmbed == InitEmbed /\ [][NextEmbed]_vars

\* the entries of a mapping stay as they are
kept(old_map, new_map) ==
    \A k \in DOMAIN old_map :
        k \in DOMAIN new_map /\ new_map[k] = old_map[k]

\* C22: the vector indices are append-only across embed runs, loads and
\* saves: in no step does the number of vectors of a kind decrease, and no
\* entry of a mapping from vector id to image id is removed or changed; the
\* load at the start of an embed run discards nothing an earlier run added.
C22_IndicesAppendOnly ==
    [][/\ ntotal(faiss_store'.text_index) >= ntotal(faiss_store.text_index)
       /\ ntotal(faiss_store'.image_index) >= ntotal(faiss_store.image_index)
       /\ kept(faiss_store.text_id_to_image_id,
               faiss_store'.text_id_to_image_id)
       /\ kept(faiss_store.image_id_to_image_id,
               faiss_store'.image_id_to_image_id)]_vars

\* the embed run of the current job is over
embed_run_over ==
    /\ embed.job # 0
    /\ embed.mode \in {"full", "embed"}
    /\ embed.pc \in {"idle", "full_finish"}

\* the vector ids of the rows are those the run found
refs_unchanged ==
    \A i \in DOMAIN embed.selected :
        /\ images[i].text_vector_id = embed.selected[i].text_vector_id
        /\ images[i].image_vector_id = embed.selected[i].image_vector_id

\* C23: when the persisted vector indices cannot be loaded at the start of an
\* embed run, the run adds no vector, changes no row's vector ids, and its
\* job ends FAILED.
C23_UnloadableIndicesAreFatal ==
    embed.unloadable =>
        /\ ntotal(faiss_store.text_index) <=
               ntotal(embed.store_before.text_index)
        /\ ntotal(faiss_store.image_index) <=
               ntotal(embed.store_before.image_index)
        /\ refs_unchanged
        /\ embed_run_over =>
               embedding_jobs[key_of("embed")].status = "FAILED"

\* C25: in the full flow, a job one of whose stages failed on loading its
\* model never reports COMPLETED.
C25_StageFailureNeverCompleted ==
    \A n \in 1..MaxEmbedJobs :
        \/ embedding_jobs[<<n, "caption">>].status = "FAILED"
        \/ embedding_jobs[<<n, "embed">>].status = "FAILED"
        => embedding_jobs[<<n, "main">>].status # "COMPLETED"

\* C28: when no caption, embed or full task is running any more, every job
\* that was started is COMPLETED or FAILED: no job stays in a non-terminal
\* status.
C28_NoJobLeftUnfinished ==
    embed.pc = "idle" =>
        \A key \in EmbedKeys :
            embedding_jobs[key].status \in {"NONE", "COMPLETED", "FAILED"}

\* a row the embed stage is to select: a caption and a vector id missing
is_candidate(table, image_id) ==
    /\ image_id \in DOMAIN table
    /\ table[image_id].caption # None
    /\ \/ table[image_id].text_vector_id = None
       \/ table[image_id].image_vector_id = None

\* the row has the vector ids it had when the run selected its candidates
keeps_refs(image_id) ==
    /\ images[image_id].text_vector_id =
           embed.selected[image_id].text_vector_id
    /\ images[image_id].image_vector_id =
           embed.selected[image_id].image_vector_id

\* the row has the vector ids the two add calls returned for the item
has_returned_refs(item) ==
    /\ images[item.image_id].text_vector_id = item.text_vector_id
    /\ images[item.image_id].image_vector_id = item.image_vector_id

\* the item is among the rows the next run would select
selected_again(image_id) ==
    LET rows == get_images_with_captions_without_embeddings(images) IN
    \E k \in DOMAIN rows : rows[k] = image_id

\* what C30 says of the items of a run whose outcome is in met: the stage
\* handles candidates only and changes the vector ids of candidates only;
\* an item whose outcome is in met has the returned ids, an item whose
\* outcome is not keeps its ids and is selected again
embed_stage_contract(met) ==
    /\ \A i \in DOMAIN embed.selected :
           keeps_refs(i) \/ is_candidate(embed.selected, i)
    /\ \A k \in DOMAIN embed.done :
           LET item == embed.done[k] IN
           /\ is_candidate(embed.selected, item.image_id)
           /\ IF /\ item.outcome \in met
                 /\ item.text_vector_id # None
                 /\ item.image_vector_id # None
              THEN has_returned_refs(item)
              ELSE /\ keeps_refs(item.image_id)
                   /\ selected_again(item.image_id)

\* C30 as stated: the embed stage changes the vector ids only of rows that
\* had a caption and a missing vector id when it selected its candidates;
\* every such item whose two embeddings and two add calls succeeded has
\* exactly the two returned ids; an item whose embedding failed keeps its
\* ids and is selected again by the next run.
C30_EmbedStageAsStated ==
    embed_stage_contract({"ok", "update_raised"})

\* C30, amended: as stated, for the items whose two embeddings, two add
\* calls and update of the row succeeded; an item whose embedding or whose
\* update of the row failed keeps its ids and is selected again by the next
\* run.
C30_EmbedStageUpdatesCandidates ==
    embed_stage_contract({"ok"})

\* the embed stage of a first, full run embedded one item and failed on
\* another; the next run selected the failed item alone and embedded it
C30_Witness ==
    /\ embed.job = MaxEmbedJobs
    /\ embed.mode = "embed"
    /\ embed.pc = "embed_loop"
    /\ Len(embed.images) = 1
    /\ embed.idx = 1
    /\ embed.done[1].outcome = "ok"
    /\ has_returned_refs(embed.done[1])
    /\ embedding_jobs[<<1, "embed">>].status = "COMPLETED"
    /\ embedding_jobs[<<1, "embed">>].embedded = 1
    /\ Len(embedding_jobs[<<1, "embed">>].errors) = 1
    /\ \E i \in DOMAIN images :
           /\ i # embed.done[1].image_id
           /\ images[i].text_vector_id # None
           /\ images[i].image_vector_id # None

\* the items of the captioning run that failed
caption_failures ==
    {k \in DOMAIN embed.caption_done : embed.caption_done[k].outcome # "ok"}

\* C31: a caption job that ends FAILED (its model did not load) has written
\* no caption to any row; an item whose captioning failed keeps a null
\* caption and its failure is collected, an item that was captioned has its
\* caption, and a run with failed items is never FAILED: it goes on over the
\* remaining items and reports COMPLETED with the collected errors.
C31_CaptionFailures ==
    LET job == embedding_jobs[key_of("caption")] IN
    /\ embed.mode \in {"full", "caption"} /\ job.status = "FAILED" =>
           /\ embed.caption_done = <<>>
           /\ \A i \in DOMAIN embed.caption_before :
                  images[i].caption = embed.caption_before[i].caption
    /\ \A k \in DOMAIN embed.caption_done :
           LET item == embed.caption_done[k] IN
           /\ embed.caption_before[item.image_id].caption = None
           /\ images[item.image_id].caption =
                  IF item.outcome = "ok" THEN caption_of(item.image_id)
                  ELSE None
    /\ embed.pc = "caption_loop" =>
           /\ Len(embed.caption_done) = embed.idx
           /\ Len(embed.errors) = Cardinality(caption_failures)
           /\ embed.captioned = embed.idx - Cardinality(caption_failures)
    /\ embed.caption_done # <<>> /\ job.status = "COMPLETED" =>
           /\ Len(embed.caption_done) =
                  Len(get_images_without_captions(embed.caption_before))
           /\ Len(job.errors) = Cardinality(caption_failures)
           /\ job.captioned =
                  Len(embed.caption_done) - Cardinality(caption_failures)

\* a captioning run is COMPLETED in which the first item failed and a later
\* one was captioned
C31_Witness ==
    /\ embed.mode = "caption"
    /\ embed.pc = "idle"
    /\ embedding_jobs[<<embed.job, "main">>].status = "COMPLETED"
    /\ Len(embedding_jobs[<<embed.job, "main">>].errors) = 1
    /\ Len(embed.caption_done) >= 2
    /\ embed.caption_done[1].outcome = "caption_failed"
    /\ images[embed.caption_done[1].image_id].caption = None
    /\ embed.caption_done[2].outcome = "ok"
    /\ images[embed.caption_done[2].image_id].caption # None

\* the items of the running ingestion job that failed in the loop
item_failures ==
    {k \in DOMAIN run.outcomes :
        run.outcomes[k].outcome
            \in {"process_failed", "upload_failed", "save_raised"}}

\* C32: in the PROCESSING stage the failure of an item neither stops the
\* loop nor fails the job: the job stays PROCESSING while items are left,
\* every downloaded item has been handled when the loop is over, each
\* failure is in the error list, and a job that is COMPLETED reports the
\* errors of its failed items.
C32_ItemFailureIsNotFatal ==
    LET job == jobs[run.job_id] IN
    /\ run.pc = "process" =>
           /\ job.status = "PROCESSING"
           /\ Len(run.outcomes) + Len(run.successful) =
                  Len(run.entries) - run.failed
    /\ run.pc = "index" =>
           /\ job.status = "INDEXING"
           /\ Len(run.outcomes) = Len(run.entries) - run.failed
    /\ run.pc \in {"process", "index"} =>
           Len(run.errors) = Cardinality(item_failures)
    /\ run.outcomes # <<>> /\ run.pc = "idle" =>
           \/ /\ job.status = "COMPLETED"
              /\ job.errors = run.errors
              /\ Len(job.errors) = Cardinality(item_failures)
           \/ /\ job.status = "FAILED"
              /\ job.errors = <<"save_master_index_json">>

\* a job is COMPLETED whose first item failed in the upload and whose second
\* item was stored
C32_Witness ==
    /\ run.pc = "idle"
    /\ Len(run.outcomes) >= 2
    /\ run.outcomes[1].outcome = "upload_failed"
    /\ run.outcomes[2].outcome = "ok"
    /\ jobs[run.job_id].status = "COMPLETED"
    /\ jobs[run.job_id].errors = <<"upload">>
    /\ jobs[run.job_id].processed_images = 1

\* the index file and the mapping file hold the vector id for the image
is_persisted(file, mapping_file, entries, vector_id, image_id) ==
    /\ file.state = "ok"
    /\ \E p \in DOMAIN file.data : file.data[p].vector_id = vector_id
    /\ mapping_file.state = "ok"
    /\ vector_id \in DOMAIN int_keys(entries)
    /\ int_keys(entries)[vector_id] = image_id

\* the items of the embed run whose vector ids were written to their rows
embedded_items ==
    {k \in DOMAIN embed.done :
        /\ embed.done[k].outcome = "ok"
        /\ embed.done[k].text_vector_id # None
        /\ embed.done[k].image_vector_id # None}

\* C33: an ingestion job becomes COMPLETED only from INDEXING and with the
\* export written from the table as it is; an embed job that handled
\* candidates becomes COMPLETED only from INDEXING, with the vector store
\* saved as it is in memory and the export written from the table.
C33_PersistBeforeCompleted ==
    [][/\ \A j \in JobIds :
              jobs[j].status # "COMPLETED" /\ jobs'[j].status = "COMPLETED" =>
                  /\ jobs[j].status = "INDEXING"
                  /\ master_index' = save_master_index_json(images')
       /\ \A key \in EmbedKeys :
              (/\ embedding_jobs[key].status # "COMPLETED"
               /\ embedding_jobs'[key].status = "COMPLETED"
               /\ key = key_of("embed")
               /\ embed.pc = "embed_finish") =>
                  /\ embedding_jobs[key].status = "INDEXING"
                  /\ master_index' = save_master_index_json(images')
                  /\ disk' = save_indices(faiss_store', disk', 3, FALSE).disk
      ]_vars

\* C37: every row with a text (image) vector id has a vector of that id in
\* the text (image) index of the store, mapped to the row's identity; so no
\* two rows share a vector id of a kind.
C37_RefsResolve ==
    \A i \in DOMAIN images :
        /\ images[i].text_vector_id # None =>
               /\ \E p \in DOMAIN faiss_store.text_index :
                      faiss_store.text_index[p].vector_id =
                          images[i].text_vector_id
               /\ images[i].text_vector_id
                      \in DOMAIN faiss_store.text_id_to_image_id
               /\ faiss_store.text_id_to_image_id[images[i].text_vector_id]
                      = i
        /\ images[i].image_vector_id # None =>
               /\ \E p \in DOMAIN faiss_store.image_index :
                      faiss_store.image_index[p].vector_id =
                          images[i].image_vector_id
               /\ images[i].image_vector_id
                      \in DOMAIN faiss_store.image_id_to_image_id
               /\ faiss_store.image_id_to_image_id[images[i].image_vector_id]
                      = i

\* C38: when an embed job is COMPLETED, the index files and the mapping file
\* hold every vector whose id the job wrote to a row.
C38_CompletedMeansPersisted ==
    (/\ embed_run_over
     /\ embedding_jobs[key_of("embed")].status = "COMPLETED") =>
        \A k \in embedded_items :
            LET item == embed.done[k] IN
            /\ is_persisted(disk.text, disk.mapping,
                            disk.mapping.data.text_to_image,
                            item.text_vector_id, item.image_id)
            /\ is_persisted(disk.image, disk.mapping,
                            disk.mapping.data.image_to_image,
                            item.image_vector_id, item.image_id)

\* C36: when a caption stage has ended, COMPLETED or FAILED, the captioner's
\* model is unloaded; when an embed stage has ended, COMPLETED or FAILED, the
\* embedder's model is unloaded.
C36_ModelReleased ==
    /\ (/\ embed.mode \in {"full", "caption"}
        /\ embed.pc = after_caption
        /\ embedding_jobs[key_of("caption")].status
               \in {"COMPLETED", "FAILED"}) => ~embed.captioner_loaded
    /\ (/\ embed_run_over
        /\ embedding_jobs[key_of("embed")].status
               \in {"COMPLETED", "FAILED"}) => ~embed.embedder_loaded

\* C39: an identity that was in the registry of the process when the job
\* started, and that the job skips as a duplicate, had a row when the job
\* started: an item whose upload or row write failed in an earlier run of
\* the process is not skipped by a later one.
C39_FailedItemNotSkipped ==
    \A k \in DOMAIN run.outcomes :
        LET item == run.outcomes[k]
            image_id == get_image_id(<<item.content>>).value IN
        (/\ item.outcome = "duplicate"
         /\ image_id \in run.at_start.known_ids) =>
            image_id \in DOMAIN run.at_start.images

\* the items of the running ingestion job with the given outcome
items_with(outcome) ==
    {k \in DOMAIN run.outcomes : run.outcomes[k].outcome = outcome}

\* C40: when an ingestion job is COMPLETED, every parsed entry is accounted
\* for once: the downloads that succeeded and those that failed add up to
\* the parsed entries, the rows stored, the duplicates skipped and the items
\* that failed in the loop add up to the successful downloads, and
\* processed_images is the number of rows the job stored, each for another
\* identity.
C40_EveryEntryAccounted ==
    LET job == jobs[run.job_id]
        stored == items_with("ok")
        downloaded == Len(run.entries) - run.failed IN
    (/\ run.pc = "idle"
     /\ run.job_id # 0
     /\ job.status = "COMPLETED") =>
        /\ job.total_images = Len(run.entries)
        /\ Len(run.outcomes) = downloaded
        /\ run.failed >= 0 /\ downloaded >= 0
        /\ Cardinality(stored) + job.duplicates_skipped + Len(job.errors)
               = downloaded
        /\ job.duplicates_skipped = Cardinality(items_with("duplicate"))
        /\ Len(job.errors) = Cardinality(item_failures)
        /\ job.processed_images = Cardinality(stored)
        /\ \A k \in stored :
               get_image_id(<<run.outcomes[k].content>>).value
                   \in DOMAIN images
        /\ \A k, l \in stored :
               run.outcomes[k].content = run.outcomes[l].content => k = l

\* a job over a full manifest is COMPLETED that stored a row, skipped a
\* duplicate, and had a failed download or an item that failed in the loop
C40_Witness ==
    /\ run.pc = "idle"
    /\ run.job_id # 0
    /\ jobs[run.job_id].status = "COMPLETED"
    /\ jobs[run.job_id].processed_images = 1
    /\ jobs[run.job_id].duplicates_skipped = 1
    /\ Len(run.entries) = MaxEntries
    /\ \/ run.failed = 1
       \/ Len(jobs[run.job_id].errors) = 1

\* C35: a row's created_at never changes once the row exists, also when the
\* identity is saved again; its updated_at never decreases and advances in
\* every save, caption update and update of the vector ids of the row; and
\* the rows are one per identity, each with its two times.
C35_RowTimes ==
    [][/\ DOMAIN stamps'.of = DOMAIN images'
       /\ \A i \in DOMAIN stamps.of :
              /\ i \in DOMAIN stamps'.of
              /\ stamps'.of[i].created_at = stamps.of[i].created_at
              /\ stamps'.of[i].updated_at >= stamps.of[i].updated_at
              /\ stamps'.of[i].updated_at >= stamps'.of[i].created_at
              /\ (/\ last_index'.n # last_index.n
                  /\ last_index'.image_id = i) =>
                     stamps'.of[i].updated_at > stamps.of[i].updated_at]_vars

\* a row was saved a second time: its created_at is that of the first
\* save, its updated_at the reading of the clock of the second
C35_Witness ==
    /\ last_index.op = "save_image_metadata"
    /\ last_index.existed
    /\ stamps.of[last_index.image_id].created_at
           < stamps.of[last_index.image_id].updated_at
    /\ stamps.of[last_index.image_id].updated_at = stamps.clock

(***************************************************************************)
(* A search of the vector store while callers add vectors (SpecSearchConc). *)
(***************************************************************************)
\* self._text_id_to_image_id.get(vector_id): the identity, if there is one
get_image_id_from_vector(forward, vector_id) ==
    IF vector_id \in DOMAIN forward
    THEN [found |-> TRUE, image_id |-> forward[vector_id]]
    ELSE [found |-> FALSE, image_id |-> <<>>]

\* search_text (search_image) and the lookup of each result's identity, as
\* in the loops of hybrid_search (lines 447-467), by a caller that runs
\* between the steps of the adding threads
SearchDuringAdd(kind, query_vector, k) ==
    LET results == search(index_of_kind(faiss_store, kind), query_vector,
                          search_k(k))
        forward == forward_of_kind(faiss_store, kind) IN
    /\ last_search = NoSearch
    /\ faiss_store.is_loaded
    /\ last_search' =
           [query_vector |-> query_vector, k |-> k,
            results |->
                [p \in DOMAIN results |->
                    [vector_id |-> results[p].vector_id,
                     score |-> results[p].score,
                     lookup |-> get_image_id_from_vector(
                                    forward, results[p].vector_id)]]]
    /\ UNCHANGED <<last_index, stamps, indexVars, ingestVars, embedVars,
                   dedupVars, dedupThreadVars, storeVars, storeThreadVars>>

InitSearchConc == InitStoreConc

NextSearchConc ==
    \/ \E t \in Threads, kind \in {"text", "image"}, image_id \in ImageIds :
           /\ AddStart(t, kind, embedding(kind, image_id), image_id)
           /\ UNCHANGED <<appVars, dedupVars, dedupThreadVars, disk, last_store,
                          saved_state, n_calls>>
    \/ \E t \in Threads :
           /\ AddAppend(t)
           /\ UNCHANGED <<appVars, dedupVars, dedupThreadVars, disk, last_store,
                          saved_state, n_calls>>
    \/ \E t \in Threads :
           /\ AddMap(t)
           /\ UNCHANGED <<appVars, dedupVars, dedupThreadVars, disk, last_store,
                          saved_state, n_calls>>
    \/ \E kind \in {"text", "image"}, image_id \in ImageIds, k \in 1..MaxK :
           SearchDuringAdd(kind, embedding(kind, image_id), k)

SpecSearchConc == InitSearchConc /\ [][NextSearchConc]_vars

\* C34: a search that runs while vectors are added sees no partial write:
\* every vector id the index search returned has an identity in the mapping
\* of its kind.
C34_SearchSeesNoPartialWrite ==
    \A p \in DOMAIN last_search.results :
        last_search.results[p].lookup.found

====
